---- MODULE Spec2Model ----
(***************************************************************************)
(* Plan-versus-delivery reconciliation of the icebreaker repository.       *)
(*                                                                         *)
(* The model follows three copies of the matching engine:                  *)
(*   performPlanDeliveryMatching  src/plan-comparison.js:849-1013          *)
(*   compareDeliveryFromText      src/plan-comparison.js:1016-1220         *)
(*   compareDeliveries            src/unnamed/part_001:111-218             *)
(* together with generateComparisonReport (src/plan-comparison.js:685-755),*)
(* generateReport (src/unnamed/part_001:221-273) and the two API handlers  *)
(* that compute the summary.                                               *)
(*                                                                         *)
(* Each matching function is modelled over all of its inputs: a list of    *)
(* planned clients, a list of deliveries and a directory, each possibly    *)
(* empty.  The guards of the callers (a 400 answer or success=false for an *)
(* empty list) are part of the handler actions.  One step of the model is  *)
(* one iteration of a loop of the code, or one call of the report.         *)
(*                                                                         *)
(* Conventions.  A string of the program is a sequence of one-character    *)
(* strings, so that toLowerCase, replace, includes and substring can be    *)
(* modelled by what they do.  JavaScript array indices are 0-based; the    *)
(* model's are 1-based, and the "no match" index -1 of the code is 0 here. *)
(* `undefined` returned by Array.prototype.find is the index 0.            *)
(***************************************************************************)
EXTENDS Integers, Sequences, FiniteSets, TLC

VARIABLES
    engine,              \* which copy of the matching code runs
    plannedClients,      \* plan.clients / planClients
    fulfilledDeliveries, \* fulfilledDeliveries / deliveries
    masterClientList,    \* masterClientList / masterClients
    comparisonResults,   \* comparisonResults / results
    matchedDeliveries,   \* the Set of claimed delivered indices
    pc,                  \* position in the function
    p,                   \* index of the next planned client of the first loop
    d,                   \* index of the next delivery of the second loop
    trace,               \* history: for every row, where it came from
    result,              \* what the matching function returns
    response,            \* the summary the API handler sends
    fn,                  \* which function of the text layer was called
    planText,            \* the planText argument
    deliveryText,        \* the deliveryText argument
    lineNo,              \* index of the line the parsing loop is at
    curName,             \* the local clientName of the line being parsed
    curProducts,         \* the local products / quantities of that line
    foundMatch,          \* the local foundMatch of parseDeliveryReport
    ran,                 \* history: the strategies that ran on that line,
                         \* each with the name and quantities it left
    sessionPlans,        \* the module-level Map: session id -> session
    plansFile,           \* the `plans` array of the plans file
    now,                 \* Date.now()
    issued,              \* history: what was last stored under each id
    lastSave,            \* history: the last return of savePlanFromText
    reply,               \* what the call of the plan store that has just
                         \* ended returned
    calls                \* the locals of the compareDeliveryWithPlan calls
                         \* that are in progress together

\* the state of the text layer: the parsers and compareDeliveryWithPlan
textVars == <<fn, planText, deliveryText, lineNo, curName, curProducts,
              foundMatch, ran>>

\* the state of the plan store: the session map, the plans file, the clock
storeVars == <<sessionPlans, plansFile, now, issued, lastSave, reply>>

vars == <<engine, plannedClients, fulfilledDeliveries, masterClientList,
          comparisonResults, matchedDeliveries, pc, p, d, trace, result,
          response, fn, planText, deliveryText, lineNo, curName, curProducts,
          foundMatch, ran, sessionPlans, plansFile, now, issued, lastSave,
          reply, calls>>

----------------------------------------------------------------------------
(* Bounds of the model *)

MaxPlanned == 2

MaxDelivered == 2

----------------------------------------------------------------------------
(* Strings *)

Codes == {"3KG", "5KG", "V00", "Cup"}

\* the characters of the model in the range U+0600..U+06FF: the letters of
\* the words the parsers look for; U0639 is AIN, U0628 is BEH
ArabicChars ==
    { "U0626", "U0627", "U0628", "U0629", "U062A", "U062C", "U062E",
      "U062F", "U0631", "U0633", "U0635", "U0639", "U063A", "U0641",
      "U0642", "U0643", "U0644", "U0645", "U0646", "U0648", "U064A" }

ToLowerCase(ch) == IF ch = "A" THEN "a" ELSE IF ch = "B" THEN "b" ELSE ch

\* \s within the alphabet of the model
IsWhitespace(ch) == ch \in {" ", "\t", "\n"}

Min(a, b) == IF a <= b THEN a ELSE b

MinOf(S) == CHOOSE x \in S : \A y \in S : x <= y

\* name.toLowerCase().replace(/\s+/g, '')
Normalize(s) ==
    LET lower == [i \in 1..Len(s) |-> ToLowerCase(s[i])]
        keep(ch) == ~IsWhitespace(ch)
    IN  SelectSeq(lower, keep)

\* s.includes(t)
Includes(s, t) ==
    \E k \in 0..(Len(s) - Len(t)) : SubSeq(s, k + 1, k + Len(t)) = t

\* s.substring(0, n)
Substring0(s, n) == SubSeq(s, 1, Min(n, Len(s)))

\* s.replace(/[^\u0600-\u06FF]/g, '')
ArabicOnly(s) ==
    LET keep(ch) == ch \in ArabicChars
    IN  SelectSeq(s, keep)

----------------------------------------------------------------------------
(* Inputs: records as the parsers produce them (a trimmed name longer than *)
(* one character, a positive total) and directory entries.  The names are  *)
(* chosen so that every tier of the score occurs between a planned and a   *)
(* delivered name: "Ab c"/"abc" 100, "abc"/"abcb" and "abcA"/"abc" 80,     *)
(* "abcA"/"abcb" 60, anything against "bab" 0.                             *)

Q(a, b, c, e) == ("3KG" :> a) @@ ("5KG" :> b) @@ ("V00" :> c) @@ ("Cup" :> e)

Client(name, products) ==
    [name |-> name, products |-> products,
     totalQuantity |-> products["3KG"] + products["5KG"]
                       + products["V00"] + products["Cup"]]

Delivery(clientName, a, b, c, e) ==
    [clientName |-> clientName, delivered3KG |-> a, delivered5KG |-> b,
     deliveredV00 |-> c, deliveredCup |-> e, totalDelivered |-> a + b + c + e]

MasterClient(name, location, isFreezr) ==
    [name |-> name, location |-> location, isFreezr |-> isFreezr]

PlannedPool ==
    { Client(<<"A", "b", " ", "c">>, Q(2, 1, 0, 0)),
      Client(<<"a", "b", "c", "A">>, Q(0, 3, 1, 0)),
      Client(<<"U0639", "U0628">>, Q(1, 1, 1, 1)) }

DeliveredPool ==
    { Delivery(<<"a", "b", "c">>, 2, 1, 0, 0),
      Delivery(<<"a", "b", "c", "b">>, 1, 0, 2, 0),
      Delivery(<<"b", "a", "b">>, 0, 1, 0, 3) }

FreezerClient == MasterClient(<<"a", "b", "c">>, "Zone A", TRUE)

PlainClient == MasterClient(<<"B", "c", "a">>, "Zone B", FALSE)

ArabicClient == MasterClient(<<"U0639", "U0628">>, "Zone C", TRUE)

\* the directories a run may be given
Directories ==
    { <<>>,
      <<FreezerClient>>,
      <<FreezerClient, PlainClient>>,
      <<PlainClient, FreezerClient>>,
      <<PlainClient, ArabicClient, FreezerClient>> }

SeqsUpTo(S, n) == UNION { [1..k -> S] : k \in 0..n }

Engines == {"performPlanDeliveryMatching", "compareDeliveryFromText",
            "compareDeliveries"}

----------------------------------------------------------------------------
(* Name Matcher *)

\* Score with the containment test in one direction only
ScoreOneWay(plannedRaw, fulfilledRaw) ==
    LET plannedName == Normalize(plannedRaw)
        fulfilledName == Normalize(fulfilledRaw)
    IN  IF plannedName = fulfilledName THEN 100
        ELSE IF Includes(plannedName, fulfilledName) THEN 80
        ELSE IF Substring0(plannedName, 3) = Substring0(fulfilledName, 3)
             THEN 60
        ELSE 0

\* the score of one delivery against one planned client
Score(plannedRaw, fulfilledRaw) ==
    LET plannedName == Normalize(plannedRaw)
        fulfilledName == Normalize(fulfilledRaw)
    IN  IF plannedName = fulfilledName THEN 100
        ELSE IF Includes(plannedName, fulfilledName)
                \/ Includes(fulfilledName, plannedName) THEN 80
        ELSE IF Substring0(plannedName, 3) = Substring0(fulfilledName, 3)
             THEN 60
        ELSE 0

NoMatch == [bestScore |-> 0, matchIndex |-> 0]

RECURSIVE ForEachDeliveryLastWins(_, _, _, _, _)
\* ForEachDelivery with `score >= bestScore`: the last of several ties wins
ForEachDeliveryLastWins(planned, deliveries, matched, index, best) ==
    IF index > Len(deliveries) THEN best
    ELSE IF index \in matched
         THEN ForEachDeliveryLastWins(planned, deliveries, matched, index + 1,
                                      best)
    ELSE LET score == Score(planned.name, deliveries[index].clientName)
         IN  IF score >= best.bestScore
             THEN ForEachDeliveryLastWins(planned, deliveries, matched,
                                          index + 1,
                                          [bestScore |-> score,
                                           matchIndex |-> index])
             ELSE ForEachDeliveryLastWins(planned, deliveries, matched,
                                          index + 1, best)

RECURSIVE ForEachDelivery(_, _, _, _, _)
\* the body of fulfilledDeliveries.forEach((fulfilled, index) => ...)
ForEachDelivery(planned, deliveries, matched, index, best) ==
    IF index > Len(deliveries) THEN best
    ELSE IF index \in matched
         THEN ForEachDelivery(planned, deliveries, matched, index + 1, best)
    ELSE LET score == Score(planned.name, deliveries[index].clientName)
         IN  IF score > best.bestScore
             THEN ForEachDelivery(planned, deliveries, matched, index + 1,
                                  [bestScore |-> score, matchIndex |-> index])
             ELSE ForEachDelivery(planned, deliveries, matched, index + 1,
                                  best)

\* BestMatch without the `if (matchedDeliveries.has(index)) return`
BestMatchIgnoringClaims(planned, deliveries, matched) ==
    ForEachDelivery(planned, deliveries, {}, 1, NoMatch)

\* bestScore and matchIndex after the forEach
BestMatch(planned, deliveries, matched) ==
    ForEachDelivery(planned, deliveries, matched, 1, NoMatch)

\* the predicate of fulfilledDeliveries.find in compareDeliveryFromText
FromTextMatches(plannedRaw, fulfilledRaw) ==
    LET pName == Normalize(plannedRaw)
        fName == Normalize(fulfilledRaw)
    IN  \/ Includes(pName, fName)
        \/ Includes(fName, pName)
        \/ ArabicOnly(pName) = ArabicOnly(fName)

\* fulfilledDeliveries.find(...) followed by indexOf
FromTextFind(planned, deliveries, matched) ==
    LET found == { i \in 1..Len(deliveries) :
                     /\ i \notin matched
                     /\ FromTextMatches(planned.name, deliveries[i].clientName) }
    IN  IF found = {} THEN 0 ELSE MinOf(found)

----------------------------------------------------------------------------
(* Directory lookup *)

\* the predicate of masterClientList.find for a planned client
PlannedLookupMatches(mcName, plannedRaw) ==
    LET mName == Normalize(mcName)
        pName == Normalize(plannedRaw)
        n == Min(Len(mName), Len(pName))
    IN  \/ Includes(mName, pName)
        \/ Includes(pName, mName)
        \/ Substring0(mName, n) = Substring0(pName, n)

\* the predicate of the other finds: containment in either direction
LookupMatches(mcName, raw) ==
    LET mName == Normalize(mcName)
        fName == Normalize(raw)
    IN  Includes(mName, fName) \/ Includes(fName, mName)

MaxOf(S) == CHOOSE x \in S : \A y \in S : y <= x

\* the name of a directory entry that has no name: mc.name is undefined
Undefined == <<"undefined">>

\* masterClientList.find throws a TypeError from mc.name.toLowerCase() when
\* it comes to an entry without a name before an entry satisfies Matches
FindThrows(list, raw, Matches(_, _)) ==
    \E k \in 1..Len(list) :
        /\ list[k].name = Undefined
        /\ \A i \in 1..(k - 1) :
               list[i].name = Undefined \/ ~Matches(list[i].name, raw)

\* FindMasterForPlanned taking the last qualifying entry instead of the first
FindMasterForPlannedLast(list, raw) ==
    LET found == { i \in 1..Len(list) : PlannedLookupMatches(list[i].name, raw) }
    IN  IF found = {} THEN 0 ELSE MaxOf(found)

\* masterClientList.find for a planned client of performPlanDeliveryMatching
FindMasterForPlanned(list, raw) ==
    LET found == { i \in 1..Len(list) : PlannedLookupMatches(list[i].name, raw) }
    IN  IF found = {} THEN 0 ELSE MinOf(found)

\* masterClientList.find of every other lookup
FindMaster(list, raw) ==
    LET found == { i \in 1..Len(list) : LookupMatches(list[i].name, raw) }
    IN  IF found = {} THEN 0 ELSE MinOf(found)

\* masterClient ? masterClient.isFreezr : false
HasFreezr(list, mi) == IF mi # 0 THEN list[mi].isFreezr ELSE FALSE

\* masterClient ? masterClient.location : 'Unknown'
Zone(list, mi) == IF mi # 0 THEN list[mi].location ELSE "Unknown"

----------------------------------------------------------------------------
(* Rows *)

Zero == Q(0, 0, 0, 0)

WithTotal(q, total) == q @@ ("total" :> total)

\* DeliveredRow with the variance taken as planned - delivered
DeliveredRowVarianceReversed(planned, bestMatch, list, mi) ==
    [clientName |-> planned.name,
     deliveryStatus |-> "Delivered",
     hasFreezr |-> HasFreezr(list, mi),
     zone |-> Zone(list, mi),
     planned |-> WithTotal(Q(planned.products["3KG"], planned.products["5KG"],
                             planned.products["V00"], planned.products["Cup"]),
                           planned.totalQuantity),
     delivered |-> WithTotal(Q(bestMatch.delivered3KG, bestMatch.delivered5KG,
                               bestMatch.deliveredV00, bestMatch.deliveredCup),
                             bestMatch.totalDelivered),
     variance |-> Q(planned.products["3KG"] - bestMatch.delivered3KG,
                    planned.products["5KG"] - bestMatch.delivered5KG,
                    planned.products["V00"] - bestMatch.deliveredV00,
                    planned.products["Cup"] - bestMatch.deliveredCup),
     action |-> "delivered"]

\* the row pushed when bestMatch && bestScore >= 60
DeliveredRow(planned, bestMatch, list, mi) ==
    [clientName |-> planned.name,
     deliveryStatus |-> "Delivered",
     hasFreezr |-> HasFreezr(list, mi),
     zone |-> Zone(list, mi),
     planned |-> WithTotal(Q(planned.products["3KG"], planned.products["5KG"],
                             planned.products["V00"], planned.products["Cup"]),
                           planned.totalQuantity),
     delivered |-> WithTotal(Q(bestMatch.delivered3KG, bestMatch.delivered5KG,
                               bestMatch.deliveredV00, bestMatch.deliveredCup),
                             bestMatch.totalDelivered),
     variance |-> Q(bestMatch.delivered3KG - planned.products["3KG"],
                    bestMatch.delivered5KG - planned.products["5KG"],
                    bestMatch.deliveredV00 - planned.products["V00"],
                    bestMatch.deliveredCup - planned.products["Cup"]),
     action |-> "delivered"]

\* MissedAction that escalates every missed client
MissedActionAlwaysUrgent(needsFollowUp) == "urgent_followup"

\* action: needsFollowUp ? 'urgent_followup' : 'followup'
MissedAction(needsFollowUp) ==
    IF needsFollowUp THEN "urgent_followup" ELSE "followup"

\* MissedRow that never escalates a freezer client
MissedRowNeverUrgent(planned, list, mi) ==
    [clientName |-> planned.name,
     deliveryStatus |-> "Missed",
     hasFreezr |-> HasFreezr(list, mi),
     zone |-> Zone(list, mi),
     planned |-> WithTotal(Q(planned.products["3KG"], planned.products["5KG"],
                             planned.products["V00"], planned.products["Cup"]),
                           planned.totalQuantity),
     delivered |-> WithTotal(Zero, 0),
     variance |-> Q(0 - planned.products["3KG"], 0 - planned.products["5KG"],
                    0 - planned.products["V00"], 0 - planned.products["Cup"]),
     action |-> "followup"]

\* the row pushed in the else branch
MissedRow(planned, list, mi) ==
    LET needsFollowUp == mi # 0 /\ list[mi].isFreezr
    IN  [clientName |-> planned.name,
         deliveryStatus |-> "Missed",
         hasFreezr |-> HasFreezr(list, mi),
         zone |-> Zone(list, mi),
         planned |-> WithTotal(Q(planned.products["3KG"],
                                 planned.products["5KG"],
                                 planned.products["V00"],
                                 planned.products["Cup"]),
                               planned.totalQuantity),
         delivered |-> WithTotal(Zero, 0),
         variance |-> Q(0 - planned.products["3KG"],
                        0 - planned.products["5KG"],
                        0 - planned.products["V00"],
                        0 - planned.products["Cup"]),
         action |-> MissedAction(needsFollowUp)]

\* the row pushed for a delivery that no planned client claimed
UnplannedRow(fulfilled, list, mi) ==
    [clientName |-> fulfilled.clientName,
     deliveryStatus |-> "Unplanned",
     hasFreezr |-> HasFreezr(list, mi),
     zone |-> Zone(list, mi),
     planned |-> WithTotal(Zero, 0),
     delivered |-> WithTotal(Q(fulfilled.delivered3KG, fulfilled.delivered5KG,
                               fulfilled.deliveredV00, fulfilled.deliveredCup),
                             fulfilled.totalDelivered),
     variance |-> Q(fulfilled.delivered3KG, fulfilled.delivered5KG,
                    fulfilled.deliveredV00, fulfilled.deliveredCup),
     action |-> "review"]

\* compareDeliveryFromText: the same row, with action 'none'
FromTextDeliveredRow(planned, matchedDelivery, list, mi) ==
    [clientName |-> planned.name,
     deliveryStatus |-> "Delivered",
     hasFreezr |-> HasFreezr(list, mi),
     zone |-> Zone(list, mi),
     planned |-> WithTotal(Q(planned.products["3KG"], planned.products["5KG"],
                             planned.products["V00"], planned.products["Cup"]),
                           planned.totalQuantity),
     delivered |-> WithTotal(Q(matchedDelivery.delivered3KG,
                               matchedDelivery.delivered5KG,
                               matchedDelivery.deliveredV00,
                               matchedDelivery.deliveredCup),
                             matchedDelivery.totalDelivered),
     variance |-> Q(matchedDelivery.delivered3KG - planned.products["3KG"],
                    matchedDelivery.delivered5KG - planned.products["5KG"],
                    matchedDelivery.deliveredV00 - planned.products["V00"],
                    matchedDelivery.deliveredCup - planned.products["Cup"]),
     action |-> "none"]

\* compareDeliveries: masterClient?.isFreezr || false
HasFreezrOrFalse(list, mi) == IF mi # 0 THEN list[mi].isFreezr ELSE FALSE

\* compareDeliveries: masterClient?.location || 'Unknown'
ZoneOrUnknown(list, mi) ==
    IF mi # 0 /\ list[mi].location # "" THEN list[mi].location ELSE "Unknown"

CompareDeliveriesDeliveredRow(planned, bestMatch, list, mi) ==
    [clientName |-> planned.name,
     deliveryStatus |-> "Delivered",
     hasFreezr |-> HasFreezrOrFalse(list, mi),
     zone |-> ZoneOrUnknown(list, mi),
     planned |-> planned.products,
     delivered |-> Q(bestMatch.delivered3KG, bestMatch.delivered5KG,
                     bestMatch.deliveredV00, bestMatch.deliveredCup),
     variance |-> Q(bestMatch.delivered3KG - planned.products["3KG"],
                    bestMatch.delivered5KG - planned.products["5KG"],
                    bestMatch.deliveredV00 - planned.products["V00"],
                    bestMatch.deliveredCup - planned.products["Cup"]),
     action |-> "delivered"]

CompareDeliveriesMissedRow(planned, list, mi) ==
    [clientName |-> planned.name,
     deliveryStatus |-> "Missed",
     hasFreezr |-> HasFreezrOrFalse(list, mi),
     zone |-> ZoneOrUnknown(list, mi),
     planned |-> planned.products,
     delivered |-> Zero,
     variance |-> Q(0 - planned.products["3KG"], 0 - planned.products["5KG"],
                    0 - planned.products["V00"], 0 - planned.products["Cup"]),
     action |-> MissedAction(mi # 0 /\ list[mi].isFreezr)]

CompareDeliveriesUnplannedRow(delivery, list, mi) ==
    [clientName |-> delivery.clientName,
     deliveryStatus |-> "Unplanned",
     hasFreezr |-> HasFreezrOrFalse(list, mi),
     zone |-> ZoneOrUnknown(list, mi),
     planned |-> Zero,
     delivered |-> Q(delivery.delivered3KG, delivery.delivered5KG,
                     delivery.deliveredV00, delivery.deliveredCup),
     variance |-> Q(delivery.delivered3KG, delivery.delivered5KG,
                    delivery.deliveredV00, delivery.deliveredCup),
     action |-> "review"]

----------------------------------------------------------------------------
(* Numbers of the summary *)

\* a JavaScript number that may be NaN
Num(n) == [isNaN |-> FALSE, value |-> n]

NaN == [isNaN |-> TRUE, value |-> 0]

\* Math.round((a / b) * 100) for integers a >= 0, b >= 0; 0 / 0 is NaN.
\* Math.round rounds a half upwards.  The code divides in floating point:
\* for the counts of the model (a + b <= MaxPlanned) the product is within
\* 1e-13 of the exact value and no exact half is missed; for large counts
\* such as 29 of 200 the floating-point product 14.499999999999998 rounds
\* to 14 where the exact 14.5 rounds to 15.
RoundPercent(a, b) ==
    IF b = 0 THEN NaN ELSE Num((200 * a + b) \div (2 * b))

\* x || 0
OrZero(x) == IF x.isNaN \/ x.value = 0 THEN Num(0) ELSE x

CountStatus(rows, status) ==
    Cardinality({ k \in 1..Len(rows) : rows[k].deliveryStatus = status })

\* the fulfillmentRate of generateComparisonReport
ReportFulfillmentRate(rows) ==
    LET deliveredClients == CountStatus(rows, "Delivered")
        missedClients == CountStatus(rows, "Missed")
    IN  IF Len(rows) > 0
        THEN RoundPercent(deliveredClients, deliveredClients + missedClients)
        ELSE Num(0)

\* comparisonResults.filter(r => r.deliveryStatus === status)
FilterStatus(rows, status) ==
    LET hasStatus(r) == r.deliveryStatus = status
    IN  SelectSeq(rows, hasStatus)

\* missedClients.filter(r => r.action === 'urgent_followup')
UrgentFollowUps(rows) ==
    LET isUrgent(r) == r.action = "urgent_followup"
    IN  SelectSeq(FilterStatus(rows, "Missed"), isUrgent)

\* a section of the report: its heading and the rows listed under it
Section(title, rows) == [title |-> title, rows |-> rows]

\* SectionShown that writes a section for an empty list too
SectionShownAlways(rows) == Len(rows) >= 0

\* if (unplannedClients.length > 0), if (urgentFollowUps.length > 0)
SectionShown(rows) == Len(rows) > 0

\* the text generateComparisonReport builds, as the sequence of its
\* sections; the summary lists no rows
ComparisonReport(rows) ==
    <<Section("DELIVERED CLIENTS", FilterStatus(rows, "Delivered")),
      Section("MISSED CLIENTS", FilterStatus(rows, "Missed"))>>
    \o (IF SectionShown(FilterStatus(rows, "Unplanned"))
        THEN <<Section("UNPLANNED DELIVERIES", FilterStatus(rows, "Unplanned"))>>
        ELSE <<>>)
    \o <<Section("SUMMARY", <<>>)>>
    \o (IF SectionShown(UrgentFollowUps(rows))
        THEN <<Section("URGENT FOLLOW-UPS REQUIRED", UrgentFollowUps(rows))>>
        ELSE <<>>)

\* the stats object returned with the rows
Stats(planned, deliveries, rows) ==
    [plannedClients |-> Len(planned),
     fulfilledDeliveries |-> Len(deliveries),
     delivered |-> CountStatus(rows, "Delivered"),
     missed |-> CountStatus(rows, "Missed"),
     unplanned |-> CountStatus(rows, "Unplanned")]

\* summary.fulfillmentRate of the API handler
HandlerFulfillmentRate(stats) ==
    OrZero(RoundPercent(stats.delivered, stats.delivered + stats.missed))

\* the fulfillmentRate of generateReport and of the serverless handler
ServerlessFulfillmentRate(rows) ==
    LET delivered == CountStatus(rows, "Delivered")
        missed == CountStatus(rows, "Missed")
    IN  IF delivered + missed > 0
        THEN RoundPercent(delivered, delivered + missed)
        ELSE Num(0)

NoStats ==
    [plannedClients |-> 0, fulfilledDeliveries |-> 0, delivered |-> 0,
     missed |-> 0, unplanned |-> 0]

\* the value of `result` before the function returns; a returned failure is
\* { success: false, error }
NoResult ==
    [success |-> FALSE, error |-> "", fulfillmentRate |-> Num(0),
     stats |-> NoStats, comparison |-> <<>>]

Failure(error) == [NoResult EXCEPT !.error = error]

\* result.comparisonResults.filter(r => r.action === 'urgent_followup') of
\* the API handlers
FilterUrgent(rows) ==
    LET isUrgent(r) == r.action = "urgent_followup"
    IN  SelectSeq(rows, isUrgent)

NoResponse ==
    [sent |-> FALSE, fulfillmentRate |-> Num(0), missedClients |-> <<>>,
     urgentFollowUps |-> <<>>]

----------------------------------------------------------------------------
(* The state machine *)

\* PcAfter with a second loop that stops one delivery short
PcAfterStoppingShort(planned, deliveries, pNext, dNext) ==
    IF pNext <= Len(planned) THEN "match"
    ELSE IF dNext < Len(deliveries) THEN "unplanned"
    ELSE "report"

\* where control is once planned clients below pNext and deliveries below
\* dNext have been handled
PcAfter(planned, deliveries, pNext, dNext) ==
    IF pNext <= Len(planned) THEN "match"
    ELSE IF dNext <= Len(deliveries) THEN "unplanned"
    ELSE "report"

\* IsDelivered with the threshold excluded: bestScore > 60
IsDeliveredAbove60(best) == best.matchIndex # 0 /\ best.bestScore > 60

\* if (bestMatch && bestScore >= 60)
IsDelivered(best) == best.matchIndex # 0 /\ best.bestScore >= 60

\* IsUnclaimed that lets every delivery through
IsUnclaimedAlways(index, matched) == index \in Nat

\* if (!matchedDeliveries.has(index))
IsUnclaimed(index, matched) == index \notin matched

Unclaimed == { i \in 1..Len(fulfilledDeliveries) : i \notin matchedDeliveries }

Source(i, j) == [planned |-> i, delivered |-> j, unclaimed |-> Unclaimed]

\* null, as a plan: getPlanFromSession and getLatestPlan return it
NoPlan == [clients |-> <<>>, planText |-> <<"null">>]

\* the session id a caller leaves out: null, undefined or ''
NoSessionId == 0

\* the return of the n-th call of savePlanFromText
SaveReturned(n, success, plan) == [n |-> n, success |-> success, plan |-> plan]

NoSave == SaveReturned(0, FALSE, NoPlan)

NoReply == [op |-> "none", sessionId |-> NoSessionId, value |-> NoPlan,
            success |-> FALSE, error |-> ""]

\* the plan store before anything was saved, nothing being called
StoreIdle ==
    /\ sessionPlans = <<>>
    /\ plansFile = <<>>
    /\ now = 0
    /\ issued = <<>>
    /\ lastSave = NoSave
    /\ reply = NoReply

Init ==
    /\ engine \in Engines
    /\ plannedClients \in SeqsUpTo(PlannedPool, MaxPlanned)
    /\ fulfilledDeliveries \in SeqsUpTo(DeliveredPool, MaxDelivered)
    /\ masterClientList \in Directories
    /\ comparisonResults = <<>>
    /\ matchedDeliveries = {}
    /\ p = 1
    /\ d = 1
    /\ pc = PcAfter(plannedClients, fulfilledDeliveries, 1, 1)
    /\ trace = <<>>
    /\ result = NoResult
    /\ response = NoResponse
    /\ fn = "none"
    /\ planText = <<>>
    /\ deliveryText = <<>>
    /\ lineNo = 0
    /\ curName = <<>>
    /\ curProducts = Zero
    /\ foundMatch = FALSE
    /\ ran = <<>>
    /\ StoreIdle
    /\ calls = <<>>

\* one iteration of `for (const planned of plannedClients)` in
\* performPlanDeliveryMatching
MatchPlanned ==
    /\ engine = "performPlanDeliveryMatching"
    /\ pc = "match"
    /\ ~FindThrows(masterClientList, plannedClients[p].name,
                   PlannedLookupMatches)
    /\ LET planned == plannedClients[p]
           best == BestMatch(planned, fulfilledDeliveries, matchedDeliveries)
           mi == FindMasterForPlanned(masterClientList, planned.name)
       IN  IF IsDelivered(best)
           THEN /\ matchedDeliveries' = matchedDeliveries \cup {best.matchIndex}
                /\ comparisonResults' =
                     Append(comparisonResults,
                            DeliveredRow(planned,
                                         fulfilledDeliveries[best.matchIndex],
                                         masterClientList, mi))
                /\ trace' = Append(trace, Source(p, best.matchIndex))
           ELSE /\ matchedDeliveries' = matchedDeliveries
                /\ comparisonResults' =
                     Append(comparisonResults,
                            MissedRow(planned, masterClientList, mi))
                /\ trace' = Append(trace, Source(p, 0))
    /\ p' = p + 1
    /\ pc' = PcAfter(plannedClients, fulfilledDeliveries, p + 1, d)
    /\ UNCHANGED <<engine, plannedClients, fulfilledDeliveries,
                   masterClientList, d, result, response>>
    /\ UNCHANGED <<textVars, storeVars, calls>>

\* one iteration of the second forEach of performPlanDeliveryMatching
ProcessUnplanned ==
    /\ engine = "performPlanDeliveryMatching"
    /\ pc = "unplanned"
    /\ IsUnclaimed(d, matchedDeliveries)
         => ~FindThrows(masterClientList, fulfilledDeliveries[d].clientName,
                        LookupMatches)
    /\ IF IsUnclaimed(d, matchedDeliveries)
       THEN LET fulfilled == fulfilledDeliveries[d]
                mi == FindMaster(masterClientList, fulfilled.clientName)
            IN  /\ comparisonResults' =
                     Append(comparisonResults,
                            UnplannedRow(fulfilled, masterClientList, mi))
                /\ trace' = Append(trace, Source(0, d))
       ELSE UNCHANGED <<comparisonResults, trace>>
    /\ d' = d + 1
    /\ pc' = PcAfter(plannedClients, fulfilledDeliveries, p, d + 1)
    /\ UNCHANGED <<engine, plannedClients, fulfilledDeliveries,
                   masterClientList, matchedDeliveries, p, result, response>>
    /\ UNCHANGED <<textVars, storeVars, calls>>

\* one iteration of `for (const planned of plannedClients)` in
\* compareDeliveryFromText
FromTextMatchPlanned ==
    /\ engine = "compareDeliveryFromText"
    /\ pc = "match"
    /\ LET planned == plannedClients[p]
           deliveryIndex == FromTextFind(planned, fulfilledDeliveries,
                                         matchedDeliveries)
           mi == FindMaster(masterClientList, planned.name)
       IN  IF deliveryIndex # 0
           THEN /\ matchedDeliveries' = matchedDeliveries \cup {deliveryIndex}
                /\ comparisonResults' =
                     Append(comparisonResults,
                            FromTextDeliveredRow(planned,
                                                 fulfilledDeliveries[deliveryIndex],
                                                 masterClientList, mi))
                /\ trace' = Append(trace, Source(p, deliveryIndex))
           ELSE /\ matchedDeliveries' = matchedDeliveries
                /\ comparisonResults' =
                     Append(comparisonResults,
                            MissedRow(planned, masterClientList, mi))
                /\ trace' = Append(trace, Source(p, 0))
    /\ p' = p + 1
    /\ pc' = PcAfter(plannedClients, fulfilledDeliveries, p + 1, d)
    /\ UNCHANGED <<engine, plannedClients, fulfilledDeliveries,
                   masterClientList, d, result, response>>
    /\ UNCHANGED <<textVars, storeVars, calls>>

\* one iteration of the second forEach of compareDeliveryFromText
FromTextProcessUnplanned ==
    /\ engine = "compareDeliveryFromText"
    /\ pc = "unplanned"
    /\ IF IsUnclaimed(d, matchedDeliveries)
       THEN LET fulfilled == fulfilledDeliveries[d]
                mi == FindMaster(masterClientList, fulfilled.clientName)
            IN  /\ comparisonResults' =
                     Append(comparisonResults,
                            UnplannedRow(fulfilled, masterClientList, mi))
                /\ trace' = Append(trace, Source(0, d))
       ELSE UNCHANGED <<comparisonResults, trace>>
    /\ d' = d + 1
    /\ pc' = PcAfter(plannedClients, fulfilledDeliveries, p, d + 1)
    /\ UNCHANGED <<engine, plannedClients, fulfilledDeliveries,
                   masterClientList, matchedDeliveries, p, result, response>>
    /\ UNCHANGED <<textVars, storeVars, calls>>

\* one iteration of `for (const planned of planClients)` in compareDeliveries
CompareDeliveriesMatchPlanned ==
    /\ engine = "compareDeliveries"
    /\ pc = "match"
    /\ LET planned == plannedClients[p]
           best == BestMatch(planned, fulfilledDeliveries, matchedDeliveries)
           mi == FindMaster(masterClientList, planned.name)
       IN  IF IsDelivered(best)
           THEN /\ matchedDeliveries' = matchedDeliveries \cup {best.matchIndex}
                /\ comparisonResults' =
                     Append(comparisonResults,
                            CompareDeliveriesDeliveredRow(
                                planned, fulfilledDeliveries[best.matchIndex],
                                masterClientList, mi))
                /\ trace' = Append(trace, Source(p, best.matchIndex))
           ELSE /\ matchedDeliveries' = matchedDeliveries
                /\ comparisonResults' =
                     Append(comparisonResults,
                            CompareDeliveriesMissedRow(planned,
                                                       masterClientList, mi))
                /\ trace' = Append(trace, Source(p, 0))
    /\ p' = p + 1
    /\ pc' = PcAfter(plannedClients, fulfilledDeliveries, p + 1, d)
    /\ UNCHANGED <<engine, plannedClients, fulfilledDeliveries,
                   masterClientList, d, result, response>>
    /\ UNCHANGED <<textVars, storeVars, calls>>

\* one iteration of the second forEach of compareDeliveries
CompareDeliveriesProcessUnplanned ==
    /\ engine = "compareDeliveries"
    /\ pc = "unplanned"
    /\ IF IsUnclaimed(d, matchedDeliveries)
       THEN LET delivery == fulfilledDeliveries[d]
                mi == FindMaster(masterClientList, delivery.clientName)
            IN  /\ comparisonResults' =
                     Append(comparisonResults,
                            CompareDeliveriesUnplannedRow(delivery,
                                                          masterClientList, mi))
                /\ trace' = Append(trace, Source(0, d))
       ELSE UNCHANGED <<comparisonResults, trace>>
    /\ d' = d + 1
    /\ pc' = PcAfter(plannedClients, fulfilledDeliveries, p, d + 1)
    /\ UNCHANGED <<engine, plannedClients, fulfilledDeliveries,
                   masterClientList, matchedDeliveries, p, result, response>>
    /\ UNCHANGED <<textVars, storeVars, calls>>

\* generateComparisonReport and the return of performPlanDeliveryMatching
\* and of compareDeliveryFromText
GenerateComparisonReport ==
    /\ engine \in {"performPlanDeliveryMatching", "compareDeliveryFromText"}
    /\ pc = "report"
    /\ result' = [success |-> TRUE, error |-> "",
                  fulfillmentRate |-> ReportFulfillmentRate(comparisonResults),
                  stats |-> Stats(plannedClients, fulfilledDeliveries,
                                  comparisonResults),
                  comparison |-> ComparisonReport(comparisonResults)]
    /\ pc' = "done"
    /\ UNCHANGED <<engine, plannedClients, fulfilledDeliveries,
                   masterClientList, comparisonResults, matchedDeliveries,
                   p, d, trace, response>>
    /\ UNCHANGED <<textVars, storeVars, calls>>

\* the API handler of api/compare-delivery.js: compareDeliveryWithPlan hands
\* it a successful result only for a non-empty plan and a non-empty delivery
\* list
Handler ==
    /\ engine = "performPlanDeliveryMatching"
    /\ pc = "done"
    /\ Len(plannedClients) # 0
    /\ Len(fulfilledDeliveries) # 0
    /\ result.success
    /\ response' = [sent |-> TRUE,
                    fulfillmentRate |-> HandlerFulfillmentRate(result.stats),
                    missedClients |-> FilterStatus(comparisonResults, "Missed"),
                    urgentFollowUps |-> FilterUrgent(comparisonResults)]
    /\ pc' = "responded"
    /\ UNCHANGED <<engine, plannedClients, fulfilledDeliveries,
                   masterClientList, comparisonResults, matchedDeliveries,
                   p, d, trace, result>>
    /\ UNCHANGED <<textVars, storeVars, calls>>

\* the serverless handler of part_001 after compareDeliveries: generateReport
\* and the summary; it answers 400 before comparing when a list is empty
ServerlessHandler ==
    /\ engine = "compareDeliveries"
    /\ pc = "report"
    /\ Len(plannedClients) # 0
    /\ Len(fulfilledDeliveries) # 0
    /\ result' = [success |-> TRUE, error |-> "",
                  fulfillmentRate |-> ServerlessFulfillmentRate(comparisonResults),
                  stats |-> Stats(plannedClients, fulfilledDeliveries,
                                  comparisonResults),
                  comparison |-> <<>>]
    /\ response' = [sent |-> TRUE,
                    fulfillmentRate |-> ServerlessFulfillmentRate(comparisonResults),
                    missedClients |-> FilterStatus(comparisonResults, "Missed"),
                    urgentFollowUps |-> FilterUrgent(comparisonResults)]
    /\ pc' = "responded"
    /\ UNCHANGED <<engine, plannedClients, fulfilledDeliveries,
                   masterClientList, comparisonResults, matchedDeliveries,
                   p, d, trace>>
    /\ UNCHANGED <<textVars, storeVars, calls>>

Next ==
    \/ MatchPlanned
    \/ ProcessUnplanned
    \/ FromTextMatchPlanned
    \/ FromTextProcessUnplanned
    \/ CompareDeliveriesMatchPlanned
    \/ CompareDeliveriesProcessUnplanned
    \/ GenerateComparisonReport
    \/ Handler
    \/ ServerlessHandler

Spec == Init /\ [][Next]_vars

TypeOK ==
    /\ pc \in {"match", "unplanned", "report", "done", "responded"}
    /\ Len(comparisonResults) = Len(trace)

----------------------------------------------------------------------------
(* The text layer: strings of the parsers.                                 *)
(*                                                                         *)
(* The texts of the model are written in the characters listed here: the   *)
(* ASCII letters, digits, space, tab, newline, "-", "+", ":", "/", "|",    *)
(* "." and the Arabic letters of ArabicChars.  Within this alphabet a      *)
(* numeric string is an optional sign followed by decimal digits; the      *)
(* hexadecimal, exponent and fraction forms that parseInt and Number also  *)
(* read are outside it.                                                    *)

Digits == {"0", "1", "2", "3", "4", "5", "6", "7", "8", "9"}

IsDigit(c) == c \in Digits

DigitValue(c) ==
    CASE c = "0" -> 0 [] c = "1" -> 1 [] c = "2" -> 2 [] c = "3" -> 3
      [] c = "4" -> 4 [] c = "5" -> 5 [] c = "6" -> 6 [] c = "7" -> 7
      [] c = "8" -> 8 [] c = "9" -> 9

AsciiLetters ==
    { "a", "b", "c", "d", "e", "f", "g", "h", "i", "j", "k", "l", "m", "n",
      "o", "p", "q", "r", "s", "t", "u", "v", "w", "x", "y", "z", "A", "B",
      "C", "D", "E", "F", "G", "H", "I", "J", "K", "L", "M", "N", "O", "P",
      "Q", "R", "S", "T", "U", "V", "W", "X", "Y", "Z" }

\* \w of a regular expression without the u flag: [A-Za-z0-9_]
IsWordChar(c) == c \in AsciiLetters \cup Digits \cup {"_"}

\* [\u0600-\u06FF\s]
IsArabicOrSpace(c) == c \in ArabicChars \/ IsWhitespace(c)

\* [0-9\.\-\s]
IsNoise(c) == IsDigit(c) \/ c \in {".", "-"} \/ IsWhitespace(c)

\* the value of a string of decimal digits
RECURSIVE DigitsValue(_)
DigitsValue(ds) ==
    IF ds = <<>> THEN 0
    ELSE 10 * DigitsValue(SubSeq(ds, 1, Len(ds) - 1)) + DigitValue(ds[Len(ds)])

\* the k-th smallest element of a set of numbers
Nth(S, k) == CHOOSE x \in S : Cardinality({ y \in S : y < x }) = k - 1

\* s.trim()
Trim(s) ==
    LET keep == { i \in 1..Len(s) : ~IsWhitespace(s[i]) }
    IN  IF keep = {} THEN <<>> ELSE SubSeq(s, MinOf(keep), MaxOf(keep))

\* the end of the longest run of characters satisfying P that starts at i;
\* i - 1 when s[i] does not satisfy P or i is beyond the string
RunEnd(s, i, P(_)) ==
    LET stops == { j \in i..Len(s) : ~P(s[j]) }
    IN  IF stops = {} THEN Len(s) ELSE MinOf(stops) - 1

\* the first positions of the maximal runs of characters satisfying P
RunStarts(s, P(_)) ==
    { i \in 1..Len(s) : P(s[i]) /\ (i = 1 \/ ~P(s[i - 1])) }

\* s.split(sep) for a one-character separator
Split(s, sep) ==
    LET at == { i \in 1..Len(s) : s[i] = sep }
        n == Cardinality(at)
        cut(k) == IF k = 0 THEN 0
                  ELSE IF k = n + 1 THEN Len(s) + 1
                  ELSE Nth(at, k)
    IN  [k \in 1..(n + 1) |-> SubSeq(s, cut(k - 1) + 1, cut(k) - 1)]

\* s.split(/\s+/) of a trimmed, non-empty string: the maximal runs of
\* characters that are not whitespace
SplitWhitespace(s) ==
    LET notSpace(c) == ~IsWhitespace(c)
        starts == RunStarts(s, notSpace)
    IN  [k \in 1..Cardinality(starts) |->
            SubSeq(s, Nth(starts, k), RunEnd(s, Nth(starts, k), notSpace))]

\* parts.map(p => p.trim()).filter(p => p !== '')
TrimmedNonEmpty(parts) ==
    LET trimmed == [k \in 1..Len(parts) |-> Trim(parts[k])]
        nonEmpty(part) == part # <<>>
    IN  SelectSeq(trimmed, nonEmpty)

\* s.startsWith(t, i - 1): t occurs in s at position i
OccursAt(s, t, i) == i + Len(t) - 1 <= Len(s) /\ SubSeq(s, i, i + Len(t) - 1) = t

\* parseInt(s): leading whitespace, an optional sign, then the longest run
\* of digits; NaN when there is no digit
ParseInt(s) ==
    LET notSpace == { i \in 1..Len(s) : ~IsWhitespace(s[i]) }
        first == IF notSpace = {} THEN Len(s) + 1 ELSE MinOf(notSpace)
        signed == first <= Len(s) /\ s[first] \in {"-", "+"}
        from == IF signed THEN first + 1 ELSE first
        to == RunEnd(s, from, IsDigit)
        magnitude == DigitsValue(SubSeq(s, from, to))
    IN  IF to < from THEN NaN
        ELSE IF signed /\ s[first] = "-" THEN Num(0 - magnitude)
        ELSE Num(magnitude)

\* isNaN(s): Number(s) is NaN.  Number reads the trimmed string; the empty
\* string is 0
IsNaNString(s) ==
    LET t == Trim(s)
        signed == Len(t) > 0 /\ t[1] \in {"-", "+"}
        body == IF signed THEN Tail(t) ELSE t
    IN  IF t = <<>> THEN FALSE
        ELSE body = <<>> \/ \E i \in 1..Len(body) : ~IsDigit(body[i])

\* parseInt(parts[k]) || 0, where parts[k] is undefined beyond the array
ColumnOrZero(parts, k) ==
    IF k > Len(parts) THEN 0 ELSE OrZero(ParseInt(parts[k])).value

----------------------------------------------------------------------------
(* parseDeliveryReport, src/plan-comparison.js:520-682 *)

CupMarker == <<"U0643", "U0648", "U0628">>

LargeMarker == <<"U0643">>

SmallMarker == <<"U0635">>

V00Marker == <<"U0641", "U0648">>

SmallWord == <<"U0635", "U063A", "U064A", "U0631">>

LargeWord == <<"U0643", "U0628", "U064A", "U0631">>

\* the words of a report's metadata lines
DeliveryDenylist ==
    { <<"U062A", "U0642", "U0631", "U064A", "U0631">>,
      <<"U0627", "U0644", "U064A", "U0648", "U0645">>,
      <<"U0628", "U062A", "U0627", "U0631", "U064A", "U062E">>,
      <<"+", "2", "0">>,
      <<"U0639", "U0631", "U0628", "U064A", "U0629">>,
      <<"U062C", "U0627", "U0645", "U0628", "U0648">>,
      <<"U0645", "U0646", "U062F", "U0648", "U0628">>,
      <<"U0633", "U0627", "U0626", "U0642">> }

AllDigits(s) == \A i \in 1..Len(s) : IsDigit(s[i])

\* line.match(/^\d{1,2}:\d{2}$/)
IsClockTime(s) ==
    LET parts == Split(s, ":")
    IN  /\ Len(parts) = 2
        /\ Len(parts[1]) \in 1..2 /\ AllDigits(parts[1])
        /\ Len(parts[2]) = 2 /\ AllDigits(parts[2])

\* line.match(/^\d{1,2}\/\d{1,2}\/\d{4}$/)
IsDate(s) ==
    LET parts == Split(s, "/")
    IN  /\ Len(parts) = 3
        /\ Len(parts[1]) \in 1..2 /\ AllDigits(parts[1])
        /\ Len(parts[2]) \in 1..2 /\ AllDigits(parts[2])
        /\ Len(parts[3]) = 4 /\ AllDigits(parts[3])

\* the test that makes the loop of parseDeliveryReport `continue`
DeliverySkipped(s) ==
    \/ s = <<>>
    \/ Len(s) < 3
    \/ \E w \in DeliveryDenylist : Includes(s, w)
    \/ IsClockTime(s)
    \/ IsDate(s)

\* the first index from i on that holds no whitespace
SkipSpace(s, i) == RunEnd(s, i, IsWhitespace) + 1

\* /^(.+?)\s*-\s*(.+)$/: the hyphen the pattern splits the line at, 0 when
\* the line does not match.  The lazy first group needs one character
\* before the hyphen and the last group one after it.
CompoundHyphen(s) ==
    LET at == { j \in 2..(Len(s) - 1) : s[j] = "-" }
    IN  IF at = {} THEN 0 ELSE MinOf(at)

RECURSIVE SumOver(_, _)
SumOver(S, f) ==
    IF S = {} THEN 0
    ELSE LET x == CHOOSE y \in S : TRUE
         IN  f[x] + SumOver(S \ {x}, f)

\* no lookahead
AnythingAhead(s, q) == TRUE

\* (?!\w)
NoWordCharAhead(s, q) == q > Len(s) \/ ~IsWordChar(s[q])

\* NoCupAhead without the lookahead
NoCupAheadDropped(s, q) == q >= 0

\* (?!...) with the rest of the cup marker, U+0648 U+0628
NoCupAhead(s, q) == ~OccursAt(s, Tail(CupMarker), q)

\* the sum of parseInt over quantitiesText.match(/(\d+)\s*marker(?!...)/g):
\* a match is a maximal run of digits, whitespace, the marker and whatever
\* the lookahead allows; a shorter run of digits is followed by a digit and
\* cannot match
MarkerSum(s, marker, Ahead(_, _)) ==
    LET starts == RunStarts(s, IsDigit)
        at(i) == SkipSpace(s, RunEnd(s, i, IsDigit) + 1)
        hit(i) == OccursAt(s, marker, at(i)) /\ Ahead(s, at(i) + Len(marker))
        qty == [i \in starts |->
                  IF hit(i) THEN DigitsValue(SubSeq(s, i, RunEnd(s, i, IsDigit)))
                  ELSE 0]
    IN  SumOver(starts, qty)

\* the quantities the primary method reads from quantitiesText
CompoundQuantities(quantitiesText) ==
    Q(MarkerSum(quantitiesText, SmallMarker, NoWordCharAhead),
      MarkerSum(quantitiesText, LargeMarker, NoCupAhead),
      MarkerSum(quantitiesText, V00Marker, AnythingAhead),
      MarkerSum(quantitiesText, CupMarker, AnythingAhead))

NoRegexMatch == [found |-> FALSE, name |-> <<>>, number |-> 0]

\* line.match(/(.+?)\s*(\d+)\s*marker/): the shortest first group of at
\* least one character after which whitespace, a maximal run of digits,
\* whitespace and the marker follow
NameNumberMarker(s, marker) ==
    LET from(k) == SkipSpace(s, k + 1)
        to(k) == RunEnd(s, from(k), IsDigit)
        ok(k) == /\ to(k) >= from(k)
                 /\ OccursAt(s, marker, SkipSpace(s, to(k) + 1))
        ks == { k \in 1..Len(s) : ok(k) }
    IN  IF ks = {} THEN NoRegexMatch
        ELSE LET k == MinOf(ks)
             IN  [found |-> TRUE, name |-> SubSeq(s, 1, k),
                  number |-> DigitsValue(SubSeq(s, from(k), to(k)))]

\* line.match(/(.+?)\s*marker.*?(\d+)/): the shortest first group after
\* which whitespace and the marker follow, and the first run of digits
\* behind the marker
NameMarkerNumber(s, marker) ==
    LET at(k) == SkipSpace(s, k + 1)
        behind(k) == { a \in (at(k) + Len(marker))..Len(s) : IsDigit(s[a]) }
        ok(k) == OccursAt(s, marker, at(k)) /\ behind(k) # {}
        ks == { k \in 1..Len(s) : ok(k) }
    IN  IF ks = {} THEN NoRegexMatch
        ELSE LET k == MinOf(ks)
                 a == MinOf(behind(k))
             IN  [found |-> TRUE, name |-> SubSeq(s, 1, k),
                  number |-> DigitsValue(SubSeq(s, a, RunEnd(s, a, IsDigit)))]

\* a || b of two match results
OrMatch(a, b) == IF a.found THEN a ELSE b

\* the locals of one iteration of parseDeliveryReport
Locals(name, quantities, found) ==
    [clientName |-> name, quantities |-> quantities, foundMatch |-> found]

\* one pattern of the fallback methods: `if (m) { if (!clientName)
\* clientName = m[1].trim(); quantities[code] = parseInt(m[2]) || 0;
\* foundMatch = true }`
ApplyMatch(locals, m, code) ==
    IF m.found
    THEN Locals(IF locals.clientName = <<>> THEN Trim(m.name)
                ELSE locals.clientName,
                [locals.quantities EXCEPT ![code] = m.number], TRUE)
    ELSE locals

\* the pattern for the small word, which sets clientName whatever it was
ApplySmallMatch(locals, m) ==
    IF m.found
    THEN Locals(Trim(m.name), [locals.quantities EXCEPT !["3KG"] = m.number],
                TRUE)
    ELSE locals

\* Method 4 under `&& !foundMatch`
ApplyUnlessFound(locals, m, code) ==
    IF m.found /\ ~locals.foundMatch THEN ApplyMatch(locals, m, code)
    ELSE locals

\* Method 4 for the small marker: `clientName = match3KG[1].trim()` without the test
ApplySmallUnlessFound(locals, m) ==
    IF m.found /\ ~locals.foundMatch THEN ApplySmallMatch(locals, m)
    ELSE locals

\* the fallback methods, applied to a line the primary method did not match
FallbackMethods(s) ==
    LET l0 == Locals(<<>>, Zero, FALSE)
        l1 == ApplySmallMatch(l0, OrMatch(NameNumberMarker(s, SmallWord),
                                          NameMarkerNumber(s, SmallWord)))
        l2 == ApplyMatch(l1, OrMatch(NameNumberMarker(s, LargeWord),
                                     NameMarkerNumber(s, LargeWord)), "5KG")
        l3 == ApplyMatch(l2, NameNumberMarker(s, V00Marker), "V00")
        l4 == ApplyMatch(l3, NameNumberMarker(s, CupMarker), "Cup")
        l5 == ApplySmallUnlessFound(l4, NameNumberMarker(s, SmallMarker))
    IN  ApplyUnlessFound(l5, NameNumberMarker(s, LargeMarker), "5KG")

\* the primary method
PrimaryMethod(s) ==
    LET j == CompoundHyphen(s)
    IN  IF j = 0 THEN Locals(<<>>, Zero, FALSE)
        ELSE Locals(Trim(SubSeq(s, 1, j - 1)),
                    CompoundQuantities(Trim(SubSeq(s, j + 1, Len(s)))), TRUE)

\* clientName.replace(/^[0-9\.\-\s]+/, '').trim().replace(/[0-9]+$/, '').trim()
CleanName(name) ==
    LET a == Trim(SubSeq(name, RunEnd(name, 1, IsNoise) + 1, Len(name)))
        notDigit == { i \in 1..Len(a) : ~IsDigit(a[i]) }
        last == IF notDigit = {} THEN 0 ELSE MaxOf(notDigit)
    IN  Trim(SubSeq(a, 1, last))

\* the names of header and total rows
DeliverySentinels ==
    { <<"U0627", "U0633", "U0645", " ", "U0627", "U0644", "U0639", "U0645", "U064A", "U0644">>,
      <<"U0627", "U0644", "U0645", "U062C", "U0645", "U0648", "U0639">>,
      <<"T", "o", "t", "a", "l">> }

Total(q) == q["3KG"] + q["5KG"] + q["V00"] + q["Cup"]

\* ValidRecord without the test of the length of the name
ValidRecordAnyName(name, total) == total > 0

\* if (clientName.length > 1 && total > 0): the test before a push
ValidRecord(name, total) == Len(name) > 1 /\ total > 0

\* the record parseDeliveryReport pushes (without its timestamp)
DeliveredRecord(name, s, q) ==
    [clientName |-> name, originalLine |-> s, delivered3KG |-> q["3KG"],
     delivered5KG |-> q["5KG"], deliveredV00 |-> q["V00"],
     deliveredCup |-> q["Cup"], totalDelivered |-> Total(q)]

\* what the end of an iteration pushes: a sequence of no or one record
DeliveryPushed(s, locals) ==
    LET name == CleanName(locals.clientName)
    IN  IF ~(locals.foundMatch /\ locals.clientName # <<>>) THEN <<>>
        ELSE IF name \in DeliverySentinels \/ Len(name) < 2 THEN <<>>
        ELSE IF ValidRecord(name, Total(locals.quantities))
             THEN <<DeliveredRecord(name, s, locals.quantities)>>
        ELSE <<>>

----------------------------------------------------------------------------
(* parseDeliveryReport of the self-contained serverless function           *)
(* (src/unnamed/part_001:16-75)                                            *)

\* if (!line || line.length < 3) continue
ServerlessSkipped(s) == s = <<>> \/ Len(s) < 3

\* the four patterns of the function, in the order of the code: the small
\* word, the large word, and under `&& !foundMatch` the short small marker
\* and the short large marker
ServerlessMethods(s) ==
    LET l0 == Locals(<<>>, Zero, FALSE)
        l1 == ApplySmallMatch(l0, NameNumberMarker(s, SmallWord))
        l2 == ApplyMatch(l1, NameNumberMarker(s, LargeWord), "5KG")
        l3 == ApplySmallUnlessFound(l2, NameNumberMarker(s, SmallMarker))
    IN  ApplyUnlessFound(l3, NameNumberMarker(s, LargeMarker), "5KG")

\* clientName.replace(/^[0-9\.\-\s]+/, '').trim()
ServerlessCleanName(name) ==
    Trim(SubSeq(name, RunEnd(name, 1, IsNoise) + 1, Len(name)))

\* what the end of an iteration pushes: a sequence of no or one record
ServerlessPushed(locals) ==
    LET name == ServerlessCleanName(locals.clientName)
        q == locals.quantities
    IN  IF ~(locals.foundMatch /\ locals.clientName # <<>>) THEN <<>>
        ELSE IF ValidRecord(name, Total(q))
             THEN <<Delivery(name, q["3KG"], q["5KG"], q["V00"], q["Cup"])>>
        ELSE <<>>

----------------------------------------------------------------------------
(* The plan parsers: the loop of compareDeliveryWithPlan                   *)
(* (src/plan-comparison.js:768-806), parsePlanText (src/unnamed/part_001:  *)
(* 78-108), the loop of savePlanFromText (src/plan-comparison.js:1240-1264)*)
(* and extractPlanClients (src/plan-comparison.js:33-165)                  *)

\* the header and total words compareDeliveryWithPlan skips a line for
CompareHeaderWords ==
    { <<"U0627", "U0633", "U0645", " ", "U0627", "U0644", "U0639",
        "U0645", "U064A", "U0644">>,
      <<"U0627", "U0644", "U0645", "U062C", "U0645", "U0648", "U0639">>,
      <<"C", "l", "i", "e", "n", "t", " ", "N", "a", "m", "e">>,
      <<"T", "o", "t", "a", "l">>,
      <<"3", " ", "K", "G">>,
      <<"5", " ", "K", "G">>,
      <<"V", "0", "0">>,
      <<"C", "u", "p">>,
      <<"C", "o", "m", "m", "e", "n", "t">> }

\* if (!line || line.length < 3) continue
PlanLineSkipped(s) == s = <<>> \/ Len(s) < 3

IsHeaderLine(s) == \E w \in CompareHeaderWords : Includes(s, w)

\* line.split('\t').map(p => p.trim()).filter(p => p !== '')
TabColumns(s) == TrimmedNonEmpty(Split(s, "\t"))

\* the products literal: parts[1] .. parts[4] of the code
ColumnProducts(parts) ==
    Q(ColumnOrZero(parts, 2), ColumnOrZero(parts, 3),
      ColumnOrZero(parts, 4), ColumnOrZero(parts, 5))

\* what the columns of a line push: a sequence of no or one record
ColumnsPushed(parts) ==
    IF Len(parts) >= 2
    THEN IF ValidRecord(parts[1], Total(ColumnProducts(parts)))
         THEN <<Client(parts[1], ColumnProducts(parts))>>
         ELSE <<>>
    ELSE <<>>

\* one iteration of the loop of parsePlanText and of savePlanFromText
PlanTextPushed(s) ==
    IF PlanLineSkipped(s) THEN <<>> ELSE ColumnsPushed(TabColumns(s))

\* one iteration of the loop of compareDeliveryWithPlan
ComparePlanPushed(s) ==
    IF PlanLineSkipped(s) \/ IsHeaderLine(s) THEN <<>>
    ELSE ColumnsPushed(TabColumns(s))

\* the header words of extractPlanClients; two of them are stored in the
\* source file as the bytes of an Arabic word read in another encoding
ExtractHeaderWords ==
    { <<"U00FF", "U00DF", "U00FF", "U2265", "U0178", "U00D6", " ",
        "U00FF", "U00DF", "U0178", "U00D1", "U00FF", "U03C0", "U0178",
        "U00D6", "U0178", "U00E4", "U0178", "U00D1">>,
      <<"C", "l", "i", "e", "n", "t", " ", "N", "a", "m", "e">>,
      <<"C", "o", "m", "m", "e", "n", "t">>,
      <<"3", " ", "K", "G">>,
      <<"5", " ", "K", "G">>,
      <<"V", "0", "0">>,
      <<"C", "u", "p">>,
      <<"3", "K", "G">>,
      <<"5", "K", "G">>,
      <<"T", "o", "t", "a", "l">>,
      <<"U00FF", "U00DF", "U00FF", "U00A8", "U0178", "U00D6", "U00FF",
        "U00DF", "U0178", "U00D1", "U0178", "U00E4">> }

ExtractSkipped(s) ==
    s = <<>> \/ (\E w \in ExtractHeaderWords : Includes(s, w)) \/ Len(s) < 3

CodeOfColumn(j) ==
    CASE j = 1 -> "3KG" [] j = 2 -> "5KG" [] j = 3 -> "V00" [] j = 4 -> "Cup"

\* for (j = 1; j < parts.length && j <= 4; j++) { value = parseInt(parts[j])
\* || 0; if (value > 0) products[code of j] = value }
PositiveColumns(q, parts) ==
    [code \in Codes |->
        LET js == { j \in 1..4 : j < Len(parts) /\ CodeOfColumn(j) = code
                                 /\ ColumnOrZero(parts, j + 1) > 0 }
        IN  IF js = {} THEN q[code]
            ELSE ColumnOrZero(parts, 1 + CHOOSE j \in js : TRUE)]

\* if (numbers[0]) products['3KG'] = numbers[0]; ... for up to four numbers
FirstFour(q, numbers) ==
    [code \in Codes |->
        LET js == { j \in 1..4 : j <= Len(numbers) /\ CodeOfColumn(j) = code
                                 /\ numbers[j] # 0 }
        IN  IF js = {} THEN q[code] ELSE numbers[CHOOSE j \in js : TRUE]]

PlanLocals(name, q) == [clientName |-> name, products |-> q]

\* Method 1 and Method 2 on the parts of the line
SplitMethod(locals, parts) ==
    IF Len(parts) >= 2
    THEN PlanLocals(parts[1], PositiveColumns(locals.products, parts))
    ELSE locals

AllZero(q) == \A code \in Codes : q[code] = 0

\* if (!clientName): Method 2 runs
Method2Runs(locals) == locals.clientName = <<>>

\* LaterMethodRuns without the test of the name and the quantities
LaterMethodRunsAlways(locals) == Len(locals.clientName) >= 0

\* if (!clientName || Object.values(products).every(v => v === 0)):
\* Method 3 and Method 4 run
LaterMethodRuns(locals) == locals.clientName = <<>> \/ AllZero(locals.products)

\* textParts.join(' ')
RECURSIVE JoinWithSpace(_)
JoinWithSpace(parts) ==
    IF parts = <<>> THEN <<>>
    ELSE IF Len(parts) = 1 THEN parts[1]
    ELSE parts[1] \o <<" ">> \o JoinWithSpace(Tail(parts))

\* Method 3: the parts between whitespace, numbers and words apart
SpaceMethod(locals, s) ==
    LET spaceParts == SplitWhitespace(s)
        isNumber(part) == /\ ~IsNaNString(part)
                          /\ Trim(part) # <<>>
                          /\ OrZero(ParseInt(part)).value > 0
        isText(part) == Trim(part) # <<>> /\ IsNaNString(part)
        numberParts == SelectSeq(spaceParts, isNumber)
        numbers == [k \in 1..Len(numberParts) |->
                       ParseInt(numberParts[k]).value]
        textParts == SelectSeq(spaceParts, isText)
    IN  IF Len(textParts) > 0 /\ Len(numbers) > 0
        THEN PlanLocals(JoinWithSpace(textParts),
                        FirstFour(locals.products, numbers))
        ELSE locals

\* line.match(/\b\d+\b/g).map(n => parseInt(n)).filter(n => n > 0): the
\* maximal runs of digits with no word character on either side
StandaloneNumbers(s) ==
    LET starts == { i \in RunStarts(s, IsDigit) :
                      /\ i = 1 \/ ~IsWordChar(s[i - 1])
                      /\ RunEnd(s, i, IsDigit) = Len(s)
                         \/ ~IsWordChar(s[RunEnd(s, i, IsDigit) + 1]) }
        all == [k \in 1..Cardinality(starts) |->
                   DigitsValue(SubSeq(s, Nth(starts, k),
                                      RunEnd(s, Nth(starts, k), IsDigit)))]
        positive(n) == n > 0
    IN  SelectSeq(all, positive)

\* Method 4: line.match(/[\u0600-\u06FF\s]+/), the first run of Arabic
\* letters and whitespace, trimmed, as the name; the standalone numbers as
\* the quantities
RegexMethod(locals, s) ==
    LET starts == RunStarts(s, IsArabicOrSpace)
        name == IF starts = {} THEN locals.clientName
                ELSE Trim(SubSeq(s, MinOf(starts),
                                 RunEnd(s, MinOf(starts), IsArabicOrSpace)))
    IN  PlanLocals(name, FirstFour(locals.products, StandaloneNumbers(s)))

\* the record extractPlanClients pushes (without its timestamp)
ExtractedRecord(name, s, q) ==
    [name |-> name, originalLine |-> s, products |-> q,
     totalQuantity |-> Total(q)]

\* clientName.match(/^[0-9\.\-\s]+$/)
OnlyNoise(name) == name # <<>> /\ \A i \in 1..Len(name) : IsNoise(name[i])

\* the end of an iteration of extractPlanClients
ExtractPushed(s, locals) ==
    LET name == CleanName(locals.clientName)
    IN  IF locals.clientName = <<>> THEN <<>>
        ELSE IF ValidRecord(name, Total(locals.products)) /\ ~OnlyNoise(name)
             THEN <<ExtractedRecord(name, s, locals.products)>>
        ELSE <<>>

----------------------------------------------------------------------------
(* The texts the text layer is run on.  A text is lines joined by newlines;*)
(* the lines are chosen so that every strategy of the parsers, every skip  *)
(* and every rejection occurs.  <tab> is the tab character.                *)

MaxLines == 2

\* plan lines for extractPlanClients:
\*   ab<tab>2<tab>1
\*   ab<tab>2b<tab>1
\*   ab|1|2
\*   ab 2 1
\*   <U+0639><U+0628>3
\*   ab<tab>0
\*   V00<tab>2
\*   a<tab>5
\*   ab<tab>2|b|1
ExtractLinePool ==
    { <<"a", "b", "\t", "2", "\t", "1">>,
      <<"a", "b", "\t", "2", "b", "\t", "1">>,
      <<"a", "b", "|", "1", "|", "2">>,
      <<"a", "b", " ", "2", " ", "1">>,
      <<"U0639", "U0628", "3">>,
      <<"a", "b", "\t", "0">>,
      <<"V", "0", "0", "\t", "2">>,
      <<"a", "\t", "5">>,
      <<"a", "b", "\t", "2", "|", "b", "|", "1">> }

\* plan lines for parsePlanText and savePlanFromText:
\*   ab<tab>2<tab>1
\*   ba<tab>-5<tab>9
\*   ab<tab>0
\*   Total<tab>5
\*   a<tab>5
\*   ab<tab><tab>3
PlanLinePool ==
    { <<"a", "b", "\t", "2", "\t", "1">>,
      <<"b", "a", "\t", "-", "5", "\t", "9">>,
      <<"a", "b", "\t", "0">>,
      <<"T", "o", "t", "a", "l", "\t", "5">>,
      <<"a", "\t", "5">>,
      <<"a", "b", "\t", "\t", "3">> }

\* delivery lines for parseDeliveryReport:
\*   ab - 3 <U+0643><U+0648><U+0628> + 2 <U+0643>
\*   ab - 1<U+0635> 2<U+0635>
\*   ab - 12<U+0635>8<U+0643>
\*   ab - 5
\*   ab 3 <U+0635><U+063A><U+064A><U+0631> - b
\*   ab 5 <U+0635> + 3 <U+0643>
\*   ab 2 <U+0643><U+0628><U+064A><U+0631>
\*   ab 4 <U+0641><U+0648> 1 <U+0643><U+0648><U+0628>
\*   1:23
\*   abc
\*   1a - 2<U+0643>
\*   <U+062A><U+0642><U+0631><U+064A><U+0631> - 2<U+0643>
\*   ab - 2 <U+0643><U+0648><U+0628> 7
DeliveryLinePool ==
    { <<"a", "b", " ", "-", " ", "3", " ", "U0643", "U0648", "U0628",
        " ", "+", " ", "2", " ", "U0643">>,
      <<"a", "b", " ", "-", " ", "1", "U0635", " ", "2", "U0635">>,
      <<"a", "b", " ", "-", " ", "1", "2", "U0635", "8", "U0643">>,
      <<"a", "b", " ", "-", " ", "5">>,
      <<"a", "b", " ", "3", " ", "U0635", "U063A", "U064A", "U0631", " ",
        "-", " ", "b">>,
      <<"a", "b", " ", "5", " ", "U0635", " ", "+", " ", "3", " ", "U0643">>,
      <<"a", "b", " ", "2", " ", "U0643", "U0628", "U064A", "U0631">>,
      <<"a", "b", " ", "4", " ", "U0641", "U0648", " ", "1", " ",
        "U0643", "U0648", "U0628">>,
      <<"1", ":", "2", "3">>,
      <<"a", "b", "c">>,
      <<"1", "a", " ", "-", " ", "2", "U0643">>,
      <<"U062A", "U0642", "U0631", "U064A", "U0631", " ", "-", " ", "2",
        "U0643">>,
      <<"a", "b", " ", "-", " ", "2", " ", "U0643", "U0648", "U0628",
        " ", "7">> }

\* plan lines for compareDeliveryWithPlan:
\*   ab<tab>2<tab>1
\*   ba<tab>-5<tab>9
\*   ab<tab>0
ComparePlanLinePool ==
    { <<"a", "b", "\t", "2", "\t", "1">>,
      <<"b", "a", "\t", "-", "5", "\t", "9">>,
      <<"a", "b", "\t", "0">> }

\* delivery lines for compareDeliveryWithPlan:
\*   ab - 3 <U+0643><U+0648><U+0628> + 2 <U+0643>
\*   bb 5 <U+0635> + 3 <U+0643>
\*   abc
CompareDeliveryLinePool ==
    { <<"a", "b", " ", "-", " ", "3", " ", "U0643", "U0648", "U0628",
        " ", "+", " ", "2", " ", "U0643">>,
      <<"b", "b", " ", "5", " ", "U0635", " ", "+", " ", "3", " ", "U0643">>,
      <<"a", "b", "c">> }

\* delivery lines for parseDeliveryReport of the serverless function:
\*   ab 3 <U+0643><U+0648><U+0628>
\*   ab 2 <U+0643><U+0628><U+064A><U+0631>
\*   ab 5 <U+0635> + 3 <U+0643>
\*   ab 3 <U+0635><U+063A><U+064A><U+0631> 2 <U+0643><U+0628><U+064A><U+0631>
\*   a 4 <U+0643>
\*   ab
ServerlessDeliveryLinePool ==
    { <<"a", "b", " ", "3", " ", "U0643", "U0648", "U0628">>,
      <<"a", "b", " ", "2", " ", "U0643", "U0628", "U064A", "U0631">>,
      <<"a", "b", " ", "5", " ", "U0635", " ", "+", " ", "3", " ", "U0643">>,
      <<"a", "b", " ", "3", " ", "U0635", "U063A", "U064A", "U0631", " ",
        "2", " ", "U0643", "U0628", "U064A", "U0631">>,
      <<"a", " ", "4", " ", "U0643">>,
      <<"a", "b">> }

\* lines.join('\n')
RECURSIVE JoinLines(_)
JoinLines(lines) ==
    IF lines = <<>> THEN <<>>
    ELSE IF Len(lines) = 1 THEN lines[1]
    ELSE lines[1] \o <<"\n">> \o JoinLines(Tail(lines))

\* the non-empty texts of at most n lines of a pool
Texts(linePool, n) == { JoinLines(ls) : ls \in SeqsUpTo(linePool, n) \ {<<>>} }

NamelessClient == MasterClient(Undefined, "Zone D", FALSE)

\* the directories compareDeliveryWithPlan is given: one whose entries all
\* have a name and one with an entry that has none
CompareDirectories ==
    { <<FreezerClient>>, <<FreezerClient, NamelessClient>> }

\* the serverless function's own parseDeliveryReport
ServerlessParse == "part_001.parseDeliveryReport"

TextFunctions == {"extractPlanClients", "parsePlanText",
                  "parseDeliveryReport", "compareDeliveryWithPlan",
                  ServerlessParse}

----------------------------------------------------------------------------
(* The state machine of the text layer: one step is the head of a loop     *)
(* iteration, one parsing method, the end of an iteration, or one test of  *)
(* compareDeliveryWithPlan; the matching that compareDeliveryWithPlan      *)
(* hands over to is MatchPlanned, ProcessUnplanned and                     *)
(* GenerateComparisonReport above.                                         *)

\* planText.split('\n') and deliveryText.split('\n')
PlanLines == Split(planText, "\n")

DeliveryLines == Split(deliveryText, "\n")

\* `line.trim()` of the line the loop is at
PlanLine == Trim(PlanLines[lineNo])

DeliveryLine == Trim(DeliveryLines[lineNo])

NoClientsError == "No valid clients found in the plan text"

NoDeliveriesError == "No valid deliveries found in the delivery text"

FailedToCompare == "Failed to compare: "

\* where control is after an exception inside compareDeliveryWithPlan, if
\* there were no try block around its body
PcAfterThrowUncaught == "rejected"

\* where control is after an exception inside compareDeliveryWithPlan: the
\* catch block returns a result
PcAfterThrow == "done"

matchState == <<engine, masterClientList, comparisonResults,
                matchedDeliveries, p, d, trace, response>>

texts == <<fn, planText, deliveryText>>

TextInit ==
    /\ fn \in TextFunctions
    /\ engine = "performPlanDeliveryMatching"
    /\ planText \in
         CASE fn = "extractPlanClients" -> Texts(ExtractLinePool, MaxLines)
           [] fn = "parsePlanText" -> Texts(PlanLinePool, MaxLines)
           [] fn = "parseDeliveryReport" -> {<<>>}
           [] fn = "compareDeliveryWithPlan" ->
                Texts(ComparePlanLinePool, MaxLines)
           [] fn = ServerlessParse -> {<<>>}
    /\ deliveryText \in
         CASE fn = "parseDeliveryReport" -> Texts(DeliveryLinePool, MaxLines)
           [] fn = "compareDeliveryWithPlan" ->
                Texts(CompareDeliveryLinePool, MaxLines)
           [] fn = ServerlessParse ->
                Texts(ServerlessDeliveryLinePool, MaxLines)
           [] OTHER -> {<<>>}
    /\ masterClientList \in
         IF fn = "compareDeliveryWithPlan" THEN CompareDirectories
         ELSE {<<>>}
    /\ plannedClients = <<>>
    /\ fulfilledDeliveries = <<>>
    /\ comparisonResults = <<>>
    /\ matchedDeliveries = {}
    /\ p = 1
    /\ d = 1
    /\ pc = CASE fn = "extractPlanClients" -> "line"
              [] fn = "parsePlanText" -> "planTextLine"
              [] fn = "parseDeliveryReport" -> "deliveryLine"
              [] fn = "compareDeliveryWithPlan" -> "planLine"
              [] fn = ServerlessParse -> "serverlessLine"
    /\ trace = <<>>
    /\ result = NoResult
    /\ response = NoResponse
    /\ lineNo = 1
    /\ curName = <<>>
    /\ curProducts = Zero
    /\ foundMatch = FALSE
    /\ ran = <<>>
    /\ StoreIdle
    /\ calls = <<>>

\* an entry of the history `ran`
Ran(method, name, q) == [method |-> method, clientName |-> name, products |-> q]

\* where a loop over the plan lines is after the line at lineNo
AfterPlanLine(again, after) ==
    IF lineNo < Len(PlanLines) THEN again ELSE after

\* where the loop of parseDeliveryReport is after the line at lineNo
AfterDeliveryLine ==
    IF lineNo < Len(DeliveryLines) THEN "deliveryLine"
    ELSE IF fn = "compareDeliveryWithPlan" THEN "deliveryCheck"
    ELSE "returned"

\* extractPlanClients: the head of an iteration
ExtractNextLine ==
    /\ fn = "extractPlanClients"
    /\ pc = "line"
    /\ IF ExtractSkipped(PlanLine)
       THEN /\ lineNo' = lineNo + 1
            /\ pc' = AfterPlanLine("line", "returned")
            /\ UNCHANGED <<curName, curProducts, ran>>
       ELSE /\ pc' = "method1"
            /\ curName' = <<>>
            /\ curProducts' = Zero
            /\ ran' = <<>>
            /\ UNCHANGED lineNo
    /\ UNCHANGED <<matchState, texts, storeVars, calls,
                   plannedClients, fulfilledDeliveries,
                   result, foundMatch>>

\* Method 1: tab-separated values
Method1 ==
    /\ pc = "method1"
    /\ LET new == SplitMethod(PlanLocals(curName, curProducts),
                              TabColumns(PlanLine))
       IN  /\ curName' = new.clientName
           /\ curProducts' = new.products
           /\ ran' = Append(ran, Ran("tab", new.clientName, new.products))
    /\ pc' = "method2"
    /\ UNCHANGED <<matchState, texts, storeVars, calls,
                   plannedClients, fulfilledDeliveries,
                   result, foundMatch, lineNo>>

\* Method 2: pipe-separated values
Method2 ==
    /\ pc = "method2"
    /\ IF Method2Runs(PlanLocals(curName, curProducts))
       THEN LET new == SplitMethod(PlanLocals(curName, curProducts),
                                   TrimmedNonEmpty(Split(PlanLine, "|")))
            IN  /\ curName' = new.clientName
                /\ curProducts' = new.products
                /\ ran' = Append(ran, Ran("pipe", new.clientName, new.products))
       ELSE UNCHANGED <<curName, curProducts, ran>>
    /\ pc' = "method3"
    /\ UNCHANGED <<matchState, texts, storeVars, calls,
                   plannedClients, fulfilledDeliveries,
                   result, foundMatch, lineNo>>

\* Method 3: space-separated with numbers
Method3 ==
    /\ pc = "method3"
    /\ IF LaterMethodRuns(PlanLocals(curName, curProducts))
       THEN LET new == SpaceMethod(PlanLocals(curName, curProducts), PlanLine)
            IN  /\ curName' = new.clientName
                /\ curProducts' = new.products
                /\ ran' = Append(ran, Ran("space", new.clientName, new.products))
       ELSE UNCHANGED <<curName, curProducts, ran>>
    /\ pc' = "method4"
    /\ UNCHANGED <<matchState, texts, storeVars, calls,
                   plannedClients, fulfilledDeliveries,
                   result, foundMatch, lineNo>>

\* Method 4: the regex approach
Method4 ==
    /\ pc = "method4"
    /\ IF LaterMethodRuns(PlanLocals(curName, curProducts))
       THEN LET new == RegexMethod(PlanLocals(curName, curProducts), PlanLine)
            IN  /\ curName' = new.clientName
                /\ curProducts' = new.products
                /\ ran' = Append(ran, Ran("regex", new.clientName, new.products))
       ELSE UNCHANGED <<curName, curProducts, ran>>
    /\ pc' = "push"
    /\ UNCHANGED <<matchState, texts, storeVars, calls,
                   plannedClients, fulfilledDeliveries,
                   result, foundMatch, lineNo>>

\* extractPlanClients: the end of an iteration
ExtractPush ==
    /\ pc = "push"
    /\ plannedClients' =
         plannedClients
           \o ExtractPushed(PlanLine, PlanLocals(curName, curProducts))
    /\ lineNo' = lineNo + 1
    /\ pc' = AfterPlanLine("line", "returned")
    /\ UNCHANGED <<matchState, texts, storeVars, calls,
                   fulfilledDeliveries, result, curName,
                   curProducts, foundMatch, ran>>

\* one iteration of the loop of parsePlanText (and of savePlanFromText)
PlanTextLine ==
    /\ pc = "planTextLine"
    /\ plannedClients' = plannedClients \o PlanTextPushed(PlanLine)
    /\ lineNo' = lineNo + 1
    /\ pc' = AfterPlanLine("planTextLine", "returned")
    /\ UNCHANGED <<matchState, texts, storeVars, calls,
                   fulfilledDeliveries, result, curName,
                   curProducts, foundMatch, ran>>

\* one iteration of the plan loop of compareDeliveryWithPlan
ComparePlanLine ==
    /\ pc = "planLine"
    /\ plannedClients' = plannedClients \o ComparePlanPushed(PlanLine)
    /\ lineNo' = lineNo + 1
    /\ pc' = AfterPlanLine("planLine", "planCheck")
    /\ UNCHANGED <<matchState, texts, storeVars, calls,
                   fulfilledDeliveries, result, curName,
                   curProducts, foundMatch, ran>>

\* NoRecords that never finds a list empty
NoRecordsNever(list) == Len(list) < 0

\* planClients.length === 0, fulfilledDeliveries.length === 0
NoRecords(list) == Len(list) = 0

\* if (planClients.length === 0) return { success: false, error }
CheckPlan ==
    /\ pc = "planCheck"
    /\ IF NoRecords(plannedClients)
       THEN /\ result' = Failure(NoClientsError)
            /\ pc' = "done"
            /\ UNCHANGED lineNo
       ELSE /\ pc' = "deliveryLine"
            /\ lineNo' = 1
            /\ UNCHANGED result
    /\ UNCHANGED <<matchState, texts, storeVars, calls,
                   plannedClients, fulfilledDeliveries,
                   curName, curProducts, foundMatch, ran>>

\* parseDeliveryReport: the head of an iteration
DeliveryNextLine ==
    /\ pc = "deliveryLine"
    /\ IF DeliverySkipped(DeliveryLine)
       THEN /\ lineNo' = lineNo + 1
            /\ pc' = AfterDeliveryLine
            /\ UNCHANGED <<curName, curProducts, foundMatch, ran>>
       ELSE /\ pc' = "primary"
            /\ curName' = <<>>
            /\ curProducts' = Zero
            /\ foundMatch' = FALSE
            /\ ran' = <<>>
            /\ UNCHANGED lineNo
    /\ UNCHANGED <<matchState, texts, storeVars, calls,
                   plannedClients, fulfilledDeliveries,
                   result>>

\* the primary method: the compound format
Primary ==
    /\ pc = "primary"
    /\ LET new == PrimaryMethod(DeliveryLine)
       IN  /\ curName' = new.clientName
           /\ curProducts' = new.quantities
           /\ foundMatch' = new.foundMatch
           /\ ran' = IF new.foundMatch
                     THEN Append(ran, Ran("primary", new.clientName,
                                          new.quantities))
                     ELSE ran
    /\ pc' = "fallback"
    /\ UNCHANGED <<matchState, texts, storeVars, calls,
                   plannedClients, fulfilledDeliveries,
                   result, lineNo>>

\* the fallback methods under `if (!foundMatch)`
Fallback ==
    /\ pc = "fallback"
    /\ IF ~foundMatch
       THEN LET new == FallbackMethods(DeliveryLine)
            IN  /\ curName' = new.clientName
                /\ curProducts' = new.quantities
                /\ foundMatch' = new.foundMatch
                /\ ran' = Append(ran, Ran("fallback", new.clientName,
                                          new.quantities))
       ELSE UNCHANGED <<curName, curProducts, foundMatch, ran>>
    /\ pc' = "deliveryPush"
    /\ UNCHANGED <<matchState, texts, storeVars, calls,
                   plannedClients, fulfilledDeliveries,
                   result, lineNo>>

\* parseDeliveryReport: the end of an iteration
DeliveryPush ==
    /\ pc = "deliveryPush"
    /\ fulfilledDeliveries' =
         fulfilledDeliveries
           \o DeliveryPushed(DeliveryLine,
                             Locals(curName, curProducts, foundMatch))
    /\ lineNo' = lineNo + 1
    /\ pc' = AfterDeliveryLine
    /\ UNCHANGED <<matchState, texts, storeVars, calls,
                   plannedClients, result, curName,
                   curProducts, foundMatch, ran>>

\* one iteration of the loop of parseDeliveryReport of the serverless
\* function
ServerlessDeliveryLine ==
    /\ pc = "serverlessLine"
    /\ IF ServerlessSkipped(DeliveryLine)
       THEN UNCHANGED <<fulfilledDeliveries, curName, curProducts, foundMatch>>
       ELSE LET new == ServerlessMethods(DeliveryLine)
            IN  /\ curName' = new.clientName
                /\ curProducts' = new.quantities
                /\ foundMatch' = new.foundMatch
                /\ fulfilledDeliveries' =
                     fulfilledDeliveries \o ServerlessPushed(new)
    /\ lineNo' = lineNo + 1
    /\ pc' = IF lineNo < Len(DeliveryLines) THEN "serverlessLine"
             ELSE "returned"
    /\ UNCHANGED <<matchState, texts, storeVars, calls,
                   plannedClients, result, ran>>

\* if (fulfilledDeliveries.length === 0) return { success: false, error };
\* otherwise the call of performPlanDeliveryMatching
CheckDeliveries ==
    /\ pc = "deliveryCheck"
    /\ IF NoRecords(fulfilledDeliveries)
       THEN /\ result' = Failure(NoDeliveriesError)
            /\ pc' = "done"
       ELSE /\ pc' = PcAfter(plannedClients, fulfilledDeliveries, 1, 1)
            /\ UNCHANGED result
    /\ UNCHANGED <<matchState, texts, storeVars, calls,
                   plannedClients, fulfilledDeliveries,
                   lineNo, curName, curProducts, foundMatch, ran>>

\* a lookup of the matching throws; the catch block of
\* compareDeliveryWithPlan returns { success: false, error }
MatchingThrows ==
    /\ fn = "compareDeliveryWithPlan"
    /\ \/ /\ pc = "match"
          /\ FindThrows(masterClientList, plannedClients[p].name,
                        PlannedLookupMatches)
       \/ /\ pc = "unplanned"
          /\ IsUnclaimed(d, matchedDeliveries)
          /\ FindThrows(masterClientList, fulfilledDeliveries[d].clientName,
                        LookupMatches)
    /\ result' = Failure(FailedToCompare)
    /\ pc' = PcAfterThrow
    /\ UNCHANGED <<matchState, texts, storeVars, calls,
                   plannedClients, fulfilledDeliveries,
                   lineNo, curName, curProducts, foundMatch, ran>>

TextNext ==
    \/ ExtractNextLine
    \/ Method1
    \/ Method2
    \/ Method3
    \/ Method4
    \/ ExtractPush
    \/ PlanTextLine
    \/ ComparePlanLine
    \/ CheckPlan
    \/ DeliveryNextLine
    \/ Primary
    \/ Fallback
    \/ DeliveryPush
    \/ ServerlessDeliveryLine
    \/ CheckDeliveries
    \/ MatchPlanned
    \/ ProcessUnplanned
    \/ MatchingThrows
    \/ GenerateComparisonReport

TextSpec == TextInit /\ [][TextNext]_vars

----------------------------------------------------------------------------
(* Vocabulary of the properties *)

Perform == engine = "performPlanDeliveryMatching"

Scoring == engine \in {"performPlanDeliveryMatching", "compareDeliveries"}

RowsComplete == pc \in {"report", "done", "responded"}

RowIdx == 1..Len(comparisonResults)

PlannedIdx == 1..Len(plannedClients)

DeliveredIdx == 1..Len(fulfilledDeliveries)

DirectoryIdx == 1..Len(masterClientList)

PlannedRows == { k \in RowIdx : trace[k].planned # 0 }

StatusOf(k) == comparisonResults[k].deliveryStatus

\* the quantities of a delivery record, by product code
DeliveredOf(f) ==
    Q(f.delivered3KG, f.delivered5KG, f.deliveredV00, f.deliveredCup)

\* the score of delivery j for the planned client of row k
ScoreAt(k, j) ==
    Score(plannedClients[trace[k].planned].name,
          fulfilledDeliveries[j].clientName)

\* the deliveries unclaimed right after row k was produced
UnclaimedAfter(k) ==
    IF k < Len(trace) THEN trace[k + 1].unclaimed ELSE Unclaimed

----------------------------------------------------------------------------
(* C1: at-most-one matching.  No delivered index is claimed by more than   *)
(* one planned record, no planned record claims more than one delivered    *)
(* record, and the claimed set is exactly the set of claimed indices; in   *)
(* performPlanDeliveryMatching and in compareDeliveries.                   *)
AtMostOneMatching ==
    Scoring =>
      /\ \A k1, k2 \in PlannedRows :
            (trace[k1].delivered # 0
             /\ trace[k1].delivered = trace[k2].delivered) => k1 = k2
      /\ \A k1, k2 \in PlannedRows :
            trace[k1].planned = trace[k2].planned => k1 = k2
      /\ matchedDeliveries
           = { trace[k].delivered : k \in PlannedRows } \ {0}
      /\ Cardinality(matchedDeliveries)
           = Cardinality({ k \in RowIdx : StatusOf(k) = "Delivered" })

\* a later planned client would have matched a delivery (score >= 60) that
\* an earlier one had already claimed, and was reported Missed
ContendedDeliveryReached ==
    /\ Scoring
    /\ RowsComplete
    /\ \E k \in PlannedRows :
          /\ StatusOf(k) = "Missed"
          /\ \E j \in DeliveredIdx :
                j \notin trace[k].unclaimed /\ ScoreAt(k, j) >= 60

(* C2: coverage.  The number of rows is the number of planned records plus *)
(* the number of unclaimed deliveries; every planned record has exactly    *)
(* one row, Delivered or Missed; every delivered record is in exactly one  *)
(* row, a Delivered one that carries its quantities or an Unplanned one.   *)
RowCoverage ==
    (Perform /\ RowsComplete) =>
      /\ Len(comparisonResults)
           = Len(plannedClients)
             + Cardinality({ j \in DeliveredIdx : j \notin matchedDeliveries })
      /\ \A i \in PlannedIdx :
            /\ Cardinality({ k \in RowIdx : trace[k].planned = i }) = 1
            /\ \A k \in RowIdx :
                  trace[k].planned = i =>
                    /\ StatusOf(k) \in {"Delivered", "Missed"}
                    /\ comparisonResults[k].clientName = plannedClients[i].name
      /\ \A j \in DeliveredIdx :
            /\ Cardinality({ k \in RowIdx : trace[k].delivered = j }) = 1
            /\ \A k \in RowIdx :
                  trace[k].delivered = j =>
                    /\ StatusOf(k) \in {"Delivered", "Unplanned"}
                    /\ \A c \in Codes :
                          comparisonResults[k].delivered[c]
                            = DeliveredOf(fulfilledDeliveries[j])[c]
      /\ \A k \in RowIdx :
            /\ StatusOf(k) \in {"Delivered", "Missed"} <=> trace[k].planned # 0
            /\ StatusOf(k) \in {"Delivered", "Unplanned"}
                 <=> trace[k].delivered # 0

\* a finished run with a Delivered, a Missed and an Unplanned row
AllStatusesReached ==
    /\ Perform
    /\ RowsComplete
    /\ \A st \in {"Delivered", "Missed", "Unplanned"} :
          \E k \in RowIdx : StatusOf(k) = st

(* C3: variance.  For every product code, a Delivered row has the          *)
(* quantities of the claimed delivery and variance = delivered - planned;  *)
(* a Missed row has delivered = 0 and variance = -planned; an Unplanned    *)
(* row has planned = 0 and variance = delivered.                           *)
VarianceCorrect ==
    Perform =>
      \A k \in RowIdx : \A c \in Codes :
        LET r == comparisonResults[k]
            t == trace[k]
        IN  /\ r.deliveryStatus = "Delivered" =>
                 /\ t.planned # 0 /\ t.delivered # 0
                 /\ r.planned[c] = plannedClients[t.planned].products[c]
                 /\ r.delivered[c]
                      = DeliveredOf(fulfilledDeliveries[t.delivered])[c]
                 /\ r.variance[c] = r.delivered[c] - r.planned[c]
            /\ r.deliveryStatus = "Missed" =>
                 /\ t.planned # 0
                 /\ r.planned[c] = plannedClients[t.planned].products[c]
                 /\ r.delivered[c] = 0
                 /\ r.variance[c] = 0 - r.planned[c]
            /\ r.deliveryStatus = "Unplanned" =>
                 /\ t.delivered # 0
                 /\ r.planned[c] = 0
                 /\ r.delivered[c]
                      = DeliveredOf(fulfilledDeliveries[t.delivered])[c]
                 /\ r.variance[c] = r.delivered[c]

\* a Delivered row with a surplus of one code and a shortfall of another,
\* next to a Missed and an Unplanned row
MixedVarianceReached ==
    /\ Perform
    /\ \E k \in RowIdx :
          /\ StatusOf(k) = "Delivered"
          /\ \E c \in Codes : comparisonResults[k].variance[c] > 0
          /\ \E c \in Codes : comparisonResults[k].variance[c] < 0
    /\ \E k \in RowIdx :
          /\ StatusOf(k) = "Missed"
          /\ \E c \in Codes : comparisonResults[k].variance[c] < 0
    /\ \E k \in RowIdx :
          /\ StatusOf(k) = "Unplanned"
          /\ \E c \in Codes : comparisonResults[k].variance[c] > 0

(* C4: threshold.  A planned record gets a Delivered row if and only if    *)
(* some delivery unclaimed at that moment scores >= 60; otherwise (best    *)
(* score below 60, or nothing unclaimed) it gets a Missed row and claims   *)
(* nothing.                                                                *)
DeliveredIffBestAtLeast60 ==
    Perform =>
      \A k \in PlannedRows :
        LET t == trace[k]
            eligible == { j \in t.unclaimed : ScoreAt(k, j) >= 60 }
        IN  /\ StatusOf(k) = "Delivered" <=> eligible # {}
            /\ StatusOf(k) = "Missed" <=> eligible = {}
            /\ StatusOf(k) = "Delivered" =>
                 /\ t.delivered \in t.unclaimed
                 /\ UnclaimedAfter(k) = t.unclaimed \ {t.delivered}
            /\ StatusOf(k) = "Missed" =>
                 /\ t.delivered = 0
                 /\ UnclaimedAfter(k) = t.unclaimed

\* one planned client is Delivered on a best score of exactly 60 and another
\* is Missed although a delivery was still unclaimed
ThresholdCasesReached ==
    /\ Perform
    /\ \E k \in PlannedRows :
          /\ StatusOf(k) = "Delivered"
          /\ \A j \in trace[k].unclaimed : ScoreAt(k, j) <= 60
    /\ \E k \in PlannedRows :
          /\ StatusOf(k) = "Missed"
          /\ trace[k].unclaimed # {}

(* C5: best candidate.  The delivery claimed for a planned record has the  *)
(* maximum score among the unclaimed deliveries, and among those at the    *)
(* maximum it has the smallest index.                                      *)
ClaimsFirstOfTheBest ==
    Perform =>
      \A k \in PlannedRows :
        StatusOf(k) = "Delivered" =>
          LET t == trace[k]
          IN  /\ t.delivered \in t.unclaimed
              /\ \A j \in t.unclaimed :
                    /\ ScoreAt(k, j) <= ScoreAt(k, t.delivered)
                    /\ ScoreAt(k, j) = ScoreAt(k, t.delivered)
                         => t.delivered <= j

\* a planned client claimed a delivery while a later unclaimed delivery had
\* the same score
TieReached ==
    /\ Perform
    /\ \E k \in PlannedRows :
          /\ StatusOf(k) = "Delivered"
          /\ \E j \in trace[k].unclaimed :
                j > trace[k].delivered
                /\ ScoreAt(k, j) = ScoreAt(k, trace[k].delivered)

\* a planned client passed over an earlier, lower-scoring candidate
OvertakeReached ==
    /\ Perform
    /\ \E k \in PlannedRows :
          /\ StatusOf(k) = "Delivered"
          /\ \E j \in trace[k].unclaimed :
                j < trace[k].delivered
                /\ ScoreAt(k, j) < ScoreAt(k, trace[k].delivered)
                /\ ScoreAt(k, j) >= 60

----------------------------------------------------------------------------
(* The name relations of the specification, stated without the operators   *)
(* of the model                                                            *)

RECURSIVE LowerNoSpace(_)
\* a name lower-cased, all whitespace removed
LowerNoSpace(s) ==
    IF s = <<>> THEN <<>>
    ELSE IF Head(s) = " " THEN LowerNoSpace(Tail(s))
    ELSE IF Head(s) = "A" THEN <<"a">> \o LowerNoSpace(Tail(s))
    ELSE IF Head(s) = "B" THEN <<"b">> \o LowerNoSpace(Tail(s))
    ELSE <<Head(s)>> \o LowerNoSpace(Tail(s))

\* b occurs in a as a contiguous run
OccursIn(b, a) ==
    \E off \in 0..(Len(a) - Len(b)) : \A i \in 1..Len(b) : a[off + i] = b[i]

\* one of the two names contains the other
EitherContains(a, b) == OccursIn(a, b) \/ OccursIn(b, a)

\* the first three characters agree
SameFirstThree(a, b) ==
    \A i \in 1..3 :
        /\ i <= Len(a) <=> i <= Len(b)
        /\ (i <= Len(a) /\ i <= Len(b)) => a[i] = b[i]

\* the directory entries whose name contains, or is contained in, the name
ContainmentMatches(raw) ==
    { i \in DirectoryIdx :
        EitherContains(LowerNoSpace(masterClientList[i].name),
                       LowerNoSpace(raw)) }

(* C6: score tiers.  On names lower-cased with whitespace removed, the     *)
(* score is 100 if they are equal, else 80 if one contains the other,      *)
(* else 60 if their first 3 characters are equal, else 0; a planned        *)
(* record that still has an unclaimed delivery equal to it up to case and  *)
(* spacing claims a delivery of score 100 and is Delivered.                *)
ScoreTiers ==
    Scoring =>
      /\ \A i \in PlannedIdx : \A j \in DeliveredIdx :
            LET a == LowerNoSpace(plannedClients[i].name)
                b == LowerNoSpace(fulfilledDeliveries[j].clientName)
            IN  Score(plannedClients[i].name,
                      fulfilledDeliveries[j].clientName)
                  = IF a = b THEN 100
                    ELSE IF EitherContains(a, b) THEN 80
                    ELSE IF SameFirstThree(a, b) THEN 60
                    ELSE 0
      /\ \A k \in PlannedRows :
            (\E j \in trace[k].unclaimed :
                LowerNoSpace(plannedClients[trace[k].planned].name)
                  = LowerNoSpace(fulfilledDeliveries[j].clientName))
            => /\ StatusOf(k) = "Delivered"
               /\ ScoreAt(k, trace[k].delivered) = 100

\* a planned name and a delivery name that differ as written but only in
\* case and spacing were matched as Delivered
CaseAndSpacingMatchReached ==
    /\ Scoring
    /\ \E k \in PlannedRows :
          /\ StatusOf(k) = "Delivered"
          /\ plannedClients[trace[k].planned].name
               # fulfilledDeliveries[trace[k].delivered].clientName
          /\ LowerNoSpace(plannedClients[trace[k].planned].name)
               = LowerNoSpace(fulfilledDeliveries[trace[k].delivered].clientName)

\* r is the integer nearest to 100 * a / (a + b), and 0 when a + b = 0
IsRoundedRate(r, a, b) ==
    /\ ~r.isNaN
    /\ r.value \in 0..100
    /\ (a + b = 0) => r.value = 0
    /\ (a + b > 0) =>
         /\ 2 * (100 * a - r.value * (a + b)) <= a + b
         /\ 2 * (r.value * (a + b) - 100 * a) <= a + b

(* C7: fulfillment rate.  The rate computed by generateComparisonReport    *)
(* and by the API handler is an integer in 0..100 equal to                 *)
(* round(100 * delivered / (delivered + missed)), and it is 0 whenever     *)
(* the Delivered and Missed counts are both 0, also for a non-empty list   *)
(* of Unplanned rows only.                                                 *)
FulfillmentRateInBounds ==
    /\ (pc \in {"done", "responded"}
        /\ engine \in {"performPlanDeliveryMatching", "compareDeliveryFromText"})
       => IsRoundedRate(result.fulfillmentRate,
                        CountStatus(comparisonResults, "Delivered"),
                        CountStatus(comparisonResults, "Missed"))
    /\ (response.sent /\ Perform)
       => IsRoundedRate(response.fulfillmentRate,
                        CountStatus(comparisonResults, "Delivered"),
                        CountStatus(comparisonResults, "Missed"))

(* C8: follow-up action.  A Delivered row has action "none" or            *)
(* "delivered"; a Missed row has "urgent_followup" when its freezer flag   *)
(* is set and "followup" otherwise, in particular when no directory entry  *)
(* matches; an Unplanned row has "review".                                 *)
ActionFollowsStatus ==
    \A k \in RowIdx :
      LET r == comparisonResults[k]
      IN  /\ r.deliveryStatus = "Delivered" =>
               r.action \in {"none", "delivered"}
          /\ r.deliveryStatus = "Missed" =>
               /\ r.action = IF r.hasFreezr THEN "urgent_followup"
                             ELSE "followup"
               /\ ContainmentMatches(r.clientName) = {}
                    => r.action = "followup"
               /\ r.action = "urgent_followup" =>
                    \E i \in ContainmentMatches(r.clientName) :
                        masterClientList[i].isFreezr
          /\ r.deliveryStatus = "Unplanned" => r.action = "review"

\* a missed freezer client, a missed client unknown to a non-empty
\* directory, and a Delivered row, in one run
MissedFreezerClientReached ==
    /\ \E k \in RowIdx :
          /\ StatusOf(k) = "Missed"
          /\ comparisonResults[k].action = "urgent_followup"
    /\ \E k \in RowIdx :
          /\ StatusOf(k) = "Missed"
          /\ comparisonResults[k].action = "followup"
          /\ masterClientList # <<>>
          /\ ContainmentMatches(comparisonResults[k].clientName) = {}

(* C9: directory lookup.  A row takes its freezer flag and zone from the   *)
(* first directory entry, in directory order, whose normalized name        *)
(* contains or is contained in the row's normalized client name; when no   *)
(* entry does, the flag is false and the zone is "Unknown".                *)
LookupTakesFirstContainment ==
    Perform =>
      \A k \in RowIdx :
        LET r == comparisonResults[k]
            found == ContainmentMatches(r.clientName)
        IN  IF found = {}
            THEN r.hasFreezr = FALSE /\ r.zone = "Unknown"
            ELSE /\ r.hasFreezr = masterClientList[MinOf(found)].isFreezr
                 /\ r.zone = masterClientList[MinOf(found)].location

\* a planned row for which two entries of different zone and freezer flag
\* qualify, and an Unplanned row that no entry of the directory matches
LookupCasesReached ==
    /\ Perform
    /\ \E k \in PlannedRows :
          \E i1, i2 \in ContainmentMatches(comparisonResults[k].clientName) :
              /\ i1 < i2
              /\ masterClientList[i1].location # masterClientList[i2].location
              /\ masterClientList[i1].isFreezr # masterClientList[i2].isFreezr
    /\ \E k \in RowIdx :
          /\ StatusOf(k) = "Unplanned"
          /\ masterClientList # <<>>
          /\ ContainmentMatches(comparisonResults[k].clientName) = {}

(* C10: unplanned rows.  After all planned records are processed, the      *)
(* Unplanned rows are exactly the unclaimed deliveries, one row each,      *)
(* after every planned row and in delivered-record order; with an empty    *)
(* planned list every delivery gets an Unplanned row and nothing else is   *)
(* produced.                                                               *)
UnplannedRowsAreTheUnclaimed ==
    (Perform /\ RowsComplete) =>
      LET n == Len(plannedClients)
          tail == { k \in RowIdx : k > n }
      IN  /\ \A k \in RowIdx : StatusOf(k) = "Unplanned" <=> k > n
          /\ { trace[k].delivered : k \in tail }
               = { j \in DeliveredIdx : j \notin matchedDeliveries }
          /\ \A k1, k2 \in tail :
                k1 < k2 => trace[k1].delivered < trace[k2].delivered
          /\ \A k \in tail :
                /\ trace[k].delivered \in DeliveredIdx
                /\ comparisonResults[k].clientName
                     = fulfilledDeliveries[trace[k].delivered].clientName
          /\ n = 0 =>
                /\ Len(comparisonResults) = Len(fulfilledDeliveries)
                /\ \A k \in RowIdx : trace[k].delivered = k

\* an empty plan against two deliveries, finished
EmptyPlanReached ==
    /\ Perform
    /\ RowsComplete
    /\ Len(plannedClients) = 0
    /\ Len(fulfilledDeliveries) >= 2
    /\ Len(comparisonResults) >= 2

----------------------------------------------------------------------------
(* Vocabulary of the properties of the text layer *)

Comparing == fn = "compareDeliveryWithPlan"

PlanPhase == pc \in {"planLine", "planCheck"}

DeliveryPhase ==
    pc \in {"deliveryLine", "primary", "fallback", "deliveryPush",
            "deliveryCheck"}

\* what parseDeliveryReport makes of one trimmed line, as one expression
DeliveryLineRecords(s) ==
    IF DeliverySkipped(s) THEN <<>>
    ELSE IF PrimaryMethod(s).foundMatch
         THEN DeliveryPushed(s, PrimaryMethod(s))
    ELSE DeliveryPushed(s, FallbackMethods(s))

RECURSIVE Flatten(_)
Flatten(seqs) ==
    IF seqs = <<>> THEN <<>> ELSE Head(seqs) \o Flatten(Tail(seqs))

\* the records of all the lines, each line taken on its own
RecordsOf(lines, LineRecords(_)) ==
    Flatten([k \in 1..Len(lines) |-> LineRecords(Trim(lines[k]))])

----------------------------------------------------------------------------
(* C11: compareDeliveryWithPlan reports zero parsed records as a failure   *)
(* value.  Once the plan lines are read and no planned record came of      *)
(* them, the function has returned success=false with the "no valid        *)
(* clients" error and has not looked at the delivery text; once the        *)
(* delivery lines are read and no delivered record came of them, it has    *)
(* returned success=false with the different "no valid deliveries" error;  *)
(* in both cases there is no row and no claimed delivery.                  *)
ZeroRecordsAreFailures ==
    Comparing =>
      /\ NoClientsError # NoDeliveriesError
      /\ (~PlanPhase /\ Len(plannedClients) = 0) =>
            /\ pc = "done"
            /\ result = Failure(NoClientsError)
            /\ fulfilledDeliveries = <<>>
            /\ ran = <<>>
            /\ comparisonResults = <<>>
            /\ matchedDeliveries = {}
      /\ (~PlanPhase /\ ~DeliveryPhase /\ Len(plannedClients) > 0
            /\ Len(fulfilledDeliveries) = 0) =>
            /\ pc = "done"
            /\ result = Failure(NoDeliveriesError)
            /\ comparisonResults = <<>>
            /\ matchedDeliveries = {}

\* a plan text without a valid line, with a delivery text that has one, has
\* been answered
NoClientsFailureReached ==
    /\ Comparing
    /\ pc = "done"
    /\ Len(plannedClients) = 0
    /\ RecordsOf(DeliveryLines, DeliveryLineRecords) # <<>>

\* a valid plan with a delivery text without a valid line has been answered
NoDeliveriesFailureReached ==
    /\ Comparing
    /\ pc = "done"
    /\ Len(plannedClients) > 0
    /\ Len(fulfilledDeliveries) = 0

----------------------------------------------------------------------------
(* C12: compareDeliveryWithPlan never throws.  Whatever the texts and the  *)
(* directory, control never leaves the function by an exception; when it   *)
(* has returned, the result either is a success or carries an error        *)
(* message; and a line that gives no record does not stop the loop: when   *)
(* a loop is over, the records are those of all the lines of the text.     *)
NeverThrows ==
    Comparing =>
      /\ pc # "rejected"
      /\ pc = "done" => (result.success \/ result.error # "")
      /\ pc = "done" =>
            (result.success <=> (Len(comparisonResults) > 0
                                 /\ result.error = ""))
      /\ ~PlanPhase =>
            plannedClients = RecordsOf(PlanLines, ComparePlanPushed)
      /\ (~PlanPhase /\ ~DeliveryPhase /\ Len(plannedClients) > 0) =>
            fulfilledDeliveries =
              RecordsOf(DeliveryLines, DeliveryLineRecords)

\* the lookup has thrown on a directory entry without a name, after a plan
\* whose first line gave no record and whose second did
CaughtFailureReached ==
    /\ Comparing
    /\ pc = "done"
    /\ result = Failure(FailedToCompare)
    /\ Len(PlanLines) = 2
    /\ ComparePlanPushed(Trim(PlanLines[1])) = <<>>
    /\ Len(plannedClients) = 1

----------------------------------------------------------------------------
(* Vocabulary of the properties of parseDeliveryReport.  The properties    *)
(* read a text from the marker backwards: a marker counts the number that  *)
(* stands before it.                                                       *)

\* the first strategy that ran on the line is the primary one
PrimaryRan == ran # <<>> /\ ran[1].method = "primary"

\* only the fallback methods ran on the line
OnlyFallbackRan == Len(ran) = 1 /\ ran[1].method = "fallback"

AfterPrimary == pc \in {"fallback", "deliveryPush"}

\* the text behind the hyphen of a compound line
QuantityText(s) == Trim(SubSeq(s, CompoundHyphen(s) + 1, Len(s)))

\* the value of the number that stands before position i of s, whitespace
\* between them or not; 0 when it is not a digit that stands there
NumberBefore(s, i) ==
    LET before == { e \in 1..(i - 1) : ~IsWhitespace(s[e]) }
        last == MaxOf(before)
        run == { b \in 1..last : \A x \in b..last : IsDigit(s[x]) }
    IN  IF before = {} THEN 0
        ELSE IF ~IsDigit(s[last]) THEN 0
        ELSE DigitsValue(SubSeq(s, MinOf(run), last))

CupAt(s, i) == OccursAt(s, CupMarker, i)

\* the large marker that does not continue into the cup marker
LargeAt(s, i) == OccursAt(s, LargeMarker, i) /\ ~CupAt(s, i)

SmallAt(s, i) == OccursAt(s, SmallMarker, i)

V00At(s, i) == OccursAt(s, V00Marker, i)

\* the sum of the numbers that stand before the markers of one kind
SumBefore(s, At(_, _)) ==
    SumOver({ i \in 1..Len(s) : At(s, i) },
            [i \in 1..Len(s) |-> NumberBefore(s, i)])

\* '3 cup-marker + 2 large-marker'
CupAndLargeFragment ==
    <<"3", " ", "U0643", "U0648", "U0628", " ", "+", " ", "2", " ", "U0643">>

----------------------------------------------------------------------------
(* C13: in the primary strategy a number followed by the cup marker is     *)
(* counted as Cup and not as 5KG, and a number followed by the large       *)
(* marker that does not continue into the cup marker is counted as 5KG and *)
(* as nothing else: Cup is the sum of the numbers before cup markers, 5KG  *)
(* the sum of the numbers before such large markers, 3KG and V00 take      *)
(* nothing from them, and '3 cup + 2 large' gives Cup 3 and 5KG 2.         *)
CupBeforeLarge ==
    (AfterPrimary /\ PrimaryRan) =>
      LET text == QuantityText(DeliveryLine)
      IN  /\ curProducts["Cup"] = SumBefore(text, CupAt)
          /\ curProducts["5KG"] = SumBefore(text, LargeAt)
          /\ curProducts["3KG"] <= SumBefore(text, SmallAt)
          /\ curProducts["V00"] <= SumBefore(text, V00At)
          /\ text = CupAndLargeFragment => curProducts = Q(0, 2, 0, 3)

\* the primary strategy has read '3 cup + 2 large'
CupAndLargeTokenized ==
    /\ pc = "fallback"
    /\ PrimaryRan
    /\ QuantityText(DeliveryLine) = CupAndLargeFragment
    /\ curProducts = Q(0, 2, 0, 3)

----------------------------------------------------------------------------
(* C14: in the primary strategy the quantity of every product code is the  *)
(* sum of all the numbers of the quantity text that are followed by the    *)
(* marker of that code; a number followed by no marker adds to no code;    *)
(* and a quantity text without a marker gives four zeros, for which the    *)
(* line gives no record.                                                   *)
QuantitiesAreMarkerSums ==
    (AfterPrimary /\ PrimaryRan) =>
      LET text == QuantityText(DeliveryLine)
          markers == { i \in 1..Len(text) :
                         \/ CupAt(text, i) \/ LargeAt(text, i)
                         \/ SmallAt(text, i) \/ V00At(text, i) }
      IN  /\ curProducts = Q(SumBefore(text, SmallAt), SumBefore(text, LargeAt),
                             SumBefore(text, V00At), SumBefore(text, CupAt))
          /\ markers = {} =>
                /\ AllZero(curProducts)
                /\ DeliveryPushed(DeliveryLine,
                                  Locals(curName, curProducts, foundMatch))
                     = <<>>

----------------------------------------------------------------------------
(* C15: the fallback strategy is applied to a line whenever the primary    *)
(* strategy leaves a zero total or no name; so a line with its quantity    *)
(* phrase before the hyphen gives the record the fallback methods read     *)
(* from it.                                                                *)
FallbackWhenPrimaryFails ==
    (pc = "deliveryPush" /\ PrimaryRan
       /\ (Total(ran[1].products) = 0 \/ ran[1].clientName = <<>>)) =>
      /\ Len(ran) = 2
      /\ ran[2].method = "fallback"
      /\ DeliveryPushed(DeliveryLine, Locals(curName, curProducts, foundMatch))
           = DeliveryPushed(DeliveryLine, FallbackMethods(DeliveryLine))

----------------------------------------------------------------------------
(* C16: in the fallback strategy every unit type is read on its own: a     *)
(* line without a hyphen that has a positive number before the short small *)
(* marker and a positive number before the short large marker leaves both  *)
(* the 3KG and the 5KG quantity set, and the name is the one the first     *)
(* successful pattern captured.                                            *)
FallbackUnitsIndependent ==
    (pc = "deliveryPush" /\ OnlyFallbackRan) =>
      LET s == DeliveryLine
          small == { i \in 1..Len(s) : SmallAt(s, i) /\ NumberBefore(s, i) > 0 }
          large == { i \in 1..Len(s) : LargeAt(s, i) /\ NumberBefore(s, i) > 0 }
      IN  (small # {} /\ large # {}) =>
             /\ curProducts["3KG"] > 0
             /\ curProducts["5KG"] > 0
             /\ curName # <<>>

----------------------------------------------------------------------------
(* Vocabulary of the properties of extractPlanClients                      *)

\* the order of the four strategies
MethodOrder == <<"tab", "pipe", "space", "regex">>

MethodRank(method) == CHOOSE k \in 1..4 : MethodOrder[k] = method

\* a strategy has left a non-empty name and at least one positive quantity
Succeeded(locals) == locals.clientName # <<>> /\ ~AllZero(locals.products)

\* extractPlanClients is between the strategies of a line
InMethods == pc \in {"method2", "method3", "method4", "push"}

----------------------------------------------------------------------------
(* C17: extractPlanClients tries its four strategies on a line in the      *)
(* order tab, pipe, whitespace, regex.  Once a strategy has left a         *)
(* non-empty name and a positive quantity, no later strategy runs on the   *)
(* line and the name and the quantities stay as they are until the line is *)
(* finished; a strategy runs only after every strategy that ran before it  *)
(* on the line has failed.                                                 *)
FirstSuccessWins ==
    /\ [](InMethods =>
            /\ Len(ran) >= 1
            /\ ran[1].method = "tab"
            /\ \A i, j \in 1..Len(ran) :
                  i < j => MethodRank(ran[i].method) < MethodRank(ran[j].method)
            /\ \A i \in 1..(Len(ran) - 1) : ~Succeeded(ran[i])
            /\ curName = ran[Len(ran)].clientName
            /\ curProducts = ran[Len(ran)].products)
    /\ [][(InMethods /\ Succeeded(PlanLocals(curName, curProducts)))
            => UNCHANGED <<curName, curProducts, ran>>]_vars

\* the pipe strategy ran after the tab strategy had failed, succeeded, and
\* the two strategies after it did not run
PipeSucceededAfterTab ==
    /\ pc = "push"
    /\ Len(ran) = 2
    /\ ran[2].method = "pipe"
    /\ ~Succeeded(ran[1])
    /\ Succeeded(ran[2])
    /\ curName = <<"a", "b">>
    /\ curProducts = Q(1, 2, 0, 0)

----------------------------------------------------------------------------
(* C18: every record extractPlanClients, the plan loop of                  *)
(* compareDeliveryWithPlan and parseDeliveryReport return has a name       *)
(* longer than one character and a total greater than zero that is the sum *)
(* of its four quantities; and a line whose cleaned name is at most one    *)
(* character long or whose total is zero adds no record.                   *)
RecordsAreValid ==
    /\ [](/\ \A k \in 1..Len(plannedClients) :
               /\ Len(plannedClients[k].name) > 1
               /\ plannedClients[k].totalQuantity > 0
               /\ plannedClients[k].totalQuantity
                    = Total(plannedClients[k].products)
          /\ \A k \in 1..Len(fulfilledDeliveries) :
               /\ Len(fulfilledDeliveries[k].clientName) > 1
               /\ fulfilledDeliveries[k].totalDelivered > 0
               /\ fulfilledDeliveries[k].totalDelivered
                    = fulfilledDeliveries[k].delivered3KG
                      + fulfilledDeliveries[k].delivered5KG
                      + fulfilledDeliveries[k].deliveredV00
                      + fulfilledDeliveries[k].deliveredCup)
    /\ [][/\ (pc = "push"
                /\ (Len(CleanName(curName)) <= 1 \/ Total(curProducts) = 0))
             => plannedClients' = plannedClients
          /\ (pc = "deliveryPush"
                /\ (Len(CleanName(curName)) <= 1 \/ Total(curProducts) = 0))
             => fulfilledDeliveries' = fulfilledDeliveries
          /\ (pc = "planLine" /\ Len(TabColumns(PlanLine)) >= 1
                /\ (\/ Len(TabColumns(PlanLine)[1]) <= 1
                    \/ Total(ColumnProducts(TabColumns(PlanLine))) = 0))
             => plannedClients' = plannedClients]_vars

\* extractPlanClients has returned one record from two lines: the second
\* line had a one-character name and a positive total
ShortNameRejected ==
    /\ fn = "extractPlanClients"
    /\ pc = "returned"
    /\ lineNo = 3
    /\ Len(plannedClients) = 1
    /\ curName = <<"a">>
    /\ Total(curProducts) > 0

----------------------------------------------------------------------------
(* C19: every quantity of every planned record that the plan loop of       *)
(* compareDeliveryWithPlan, parsePlanText and savePlanFromText produce is  *)
(* a non-negative integer, whatever the columns of the line hold, a number *)
(* with a leading minus sign included.                                     *)
PlannedQuantitiesNonNegative ==
    fn \in {"compareDeliveryWithPlan", "parsePlanText"} =>
      \A k \in 1..Len(plannedClients) :
         \A code \in Codes : plannedClients[k].products[code] \in Nat

----------------------------------------------------------------------------
(* Vocabulary of the properties of the report                              *)

\* the headings of the report in the order of the claim
SectionOrder ==
    <<"DELIVERED CLIENTS", "MISSED CLIENTS", "UNPLANNED DELIVERIES",
      "SUMMARY", "URGENT FOLLOW-UPS REQUIRED">>

SectionRank(title) == CHOOSE k \in 1..5 : SectionOrder[k] = title

\* generateComparisonReport has returned its report
Reported ==
    /\ engine \in {"performPlanDeliveryMatching", "compareDeliveryFromText"}
    /\ result.success

\* the positions of the report at which a section has the heading
SectionsTitled(title) ==
    { k \in 1..Len(result.comparison) : result.comparison[k].title = title }

\* how many times the row stands in the section
Occurrences(section, row) ==
    Cardinality({ k \in 1..Len(section.rows) : section.rows[k] = row })

\* how many rows of comparisonResults are equal to the row
Copies(row) == Cardinality({ k \in RowIdx : comparisonResults[k] = row })

----------------------------------------------------------------------------
(* C20: the report of generateComparisonReport has its sections in the     *)
(* order Delivered, Missed, Unplanned, Summary, urgent follow-ups, each at *)
(* most once, with Delivered, Missed and Summary always there; the         *)
(* Unplanned section is there exactly when a row is Unplanned; the urgent  *)
(* section is there exactly when a row has the action urgent_followup, and *)
(* it lists exactly the rows with that action; and every row stands in the *)
(* section of its status and in neither of the other two.                  *)
ReportSectionsInOrder ==
    Reported =>
      LET report == result.comparison
          statusOf == ("DELIVERED CLIENTS" :> "Delivered")
                      @@ ("MISSED CLIENTS" :> "Missed")
                      @@ ("UNPLANNED DELIVERIES" :> "Unplanned")
      IN  /\ \A k \in 1..Len(report) : \E n \in 1..5 : report[k].title = SectionOrder[n]
          /\ \A i, j \in 1..Len(report) :
                i < j => SectionRank(report[i].title)
                           < SectionRank(report[j].title)
          /\ \A title \in {"DELIVERED CLIENTS", "MISSED CLIENTS", "SUMMARY"} :
                SectionsTitled(title) # {}
          /\ SectionsTitled("UNPLANNED DELIVERIES") # {}
               <=> \E k \in RowIdx : StatusOf(k) = "Unplanned"
          /\ SectionsTitled("URGENT FOLLOW-UPS REQUIRED") # {}
               <=> \E k \in RowIdx :
                      comparisonResults[k].action = "urgent_followup"
          /\ \A s \in SectionsTitled("URGENT FOLLOW-UPS REQUIRED") :
                /\ \A k \in 1..Len(report[s].rows) :
                      report[s].rows[k].action = "urgent_followup"
                /\ \A k \in RowIdx :
                      comparisonResults[k].action = "urgent_followup" =>
                        Occurrences(report[s], comparisonResults[k])
                          = Copies(comparisonResults[k])
          /\ \A k \in RowIdx :
                /\ StatusOf(k) \in {"Delivered", "Missed", "Unplanned"}
                /\ \A title \in DOMAIN statusOf :
                      IF statusOf[title] = StatusOf(k)
                      THEN \E s \in SectionsTitled(title) :
                              Occurrences(report[s], comparisonResults[k])
                                = Copies(comparisonResults[k])
                      ELSE \A s \in SectionsTitled(title) :
                              Occurrences(report[s], comparisonResults[k]) = 0

\* a report with all five sections: a missed freezer client and an
\* unplanned delivery
AllFiveSections ==
    /\ Reported
    /\ Len(result.comparison) = 5
    /\ \E k \in RowIdx : comparisonResults[k].action = "urgent_followup"
    /\ \E k \in RowIdx : StatusOf(k) = "Unplanned"

----------------------------------------------------------------------------
(* C24: in compareDeliveryFromText a planned client gets a Delivered row   *)
(* only if the score of its name against the name of the delivery it       *)
(* claims is at least 60 and no unclaimed delivery scores higher; two      *)
(* names that neither contain one another nor share their first three      *)
(* normalized characters are never matched.                                *)
FromTextClaimsByScore ==
    engine = "compareDeliveryFromText" =>
      \A k \in PlannedRows :
        StatusOf(k) = "Delivered" =>
          LET t == trace[k]
              a == plannedClients[t.planned].name
              b == fulfilledDeliveries[t.delivered].clientName
          IN  /\ ScoreAt(k, t.delivered) >= 60
              /\ \A j \in t.unclaimed : ScoreAt(k, j) <= ScoreAt(k, t.delivered)
              /\ \/ EitherContains(LowerNoSpace(a), LowerNoSpace(b))
                 \/ SameFirstThree(LowerNoSpace(a), LowerNoSpace(b))

----------------------------------------------------------------------------
(* C25: parseDeliveryReport of the serverless function never gives a       *)
(* number that is followed by the cup marker to the 5KG quantity: a line   *)
(* whose only number stands before the cup marker leaves the 5KG quantity  *)
(* zero and gives no record with a positive 5KG quantity.                  *)
ServerlessCupIsNotLarge ==
    (fn = ServerlessParse /\ lineNo > 1
       /\ ~ServerlessSkipped(Trim(DeliveryLines[lineNo - 1]))) =>
      LET s == Trim(DeliveryLines[lineNo - 1])
          cups == { i \in 1..Len(s) : CupAt(s, i) /\ NumberBefore(s, i) > 0 }
      IN  (cups # {} /\ Cardinality(RunStarts(s, IsDigit)) = 1) =>
             /\ curProducts["5KG"] = 0
             /\ \A k \in 1..Len(fulfilledDeliveries) :
                   fulfilledDeliveries[k].clientName = ServerlessCleanName(curName)
                     => fulfilledDeliveries[k].delivered5KG = 0

----------------------------------------------------------------------------
\* the planned and the delivered names are pairwise distinct after
\* normalization
NamesDistinct ==
    /\ \A i, j \in PlannedIdx :
          i # j => LowerNoSpace(plannedClients[i].name)
                     # LowerNoSpace(plannedClients[j].name)
    /\ \A i, j \in DeliveredIdx :
          i # j => LowerNoSpace(fulfilledDeliveries[i].clientName)
                     # LowerNoSpace(fulfilledDeliveries[j].clientName)

\* the deliveries whose normalized name is that of the planned client of
\* row k
SameNamed(k) ==
    { j \in DeliveredIdx :
        LowerNoSpace(plannedClients[trace[k].planned].name)
          = LowerNoSpace(fulfilledDeliveries[j].clientName) }

----------------------------------------------------------------------------
(* C29: when the planned names are pairwise distinct after normalization   *)
(* and the delivered names are pairwise distinct after normalization, a    *)
(* planned record whose normalized name is the normalized name of a        *)
(* delivered record is never reported as Missed by                         *)
(* performPlanDeliveryMatching, whatever the other planned records are and *)
(* wherever they stand.                                                    *)
ExactNameNeverMissed ==
    (Perform /\ NamesDistinct) =>
      \A k \in PlannedRows : SameNamed(k) # {} => StatusOf(k) # "Missed"

\* C29 as the code has it: with pairwise distinct names, a planned record
\* whose normalized name is that of a delivered record claims that record
\* and is Delivered if the record is unclaimed at its turn; it is Missed
\* only if an earlier planned record has claimed that record, with a score
\* of at least 60; and a record is claimed only while it is unclaimed.
ExactNameMissedOnlyIfClaimed ==
    (Perform /\ NamesDistinct) =>
      \A k \in PlannedRows :
        /\ StatusOf(k) = "Delivered" => trace[k].delivered \in trace[k].unclaimed
        /\ \A j \in SameNamed(k) :
              /\ j \in trace[k].unclaimed =>
                    StatusOf(k) = "Delivered" /\ trace[k].delivered = j
              /\ StatusOf(k) = "Missed" =>
                    \E e \in PlannedRows :
                       /\ e < k
                       /\ trace[e].delivered = j
                       /\ ScoreAt(e, j) \in {60, 80}

\* a planned client is Missed although a delivery has its name: an earlier
\* planned client, whose name contains it, has claimed that delivery
ExactNameTakenReached ==
    /\ Perform
    /\ NamesDistinct
    /\ \E k \in PlannedRows :
          /\ StatusOf(k) = "Missed"
          /\ SameNamed(k) # {}
          /\ \A j \in SameNamed(k) : j \notin trace[k].unclaimed

----------------------------------------------------------------------------
(* C30: in the rows of performPlanDeliveryMatching, of                     *)
(* compareDeliveryFromText and of compareDeliveries a row has the action   *)
(* urgent_followup only if its status is Missed and its freezer flag is    *)
(* set; no Delivered row and no Unplanned row has it; so every row of the  *)
(* urgentFollowUps list an API handler sends is a row of its missedClients *)
(* list.                                                                   *)
UrgentOnlyMissedFreezer ==
    /\ \A k \in RowIdx :
          comparisonResults[k].action = "urgent_followup" =>
            /\ StatusOf(k) = "Missed"
            /\ comparisonResults[k].hasFreezr = TRUE
    /\ \A k \in RowIdx :
          StatusOf(k) \in {"Delivered", "Unplanned"} =>
            comparisonResults[k].action # "urgent_followup"
    /\ response.sent =>
          /\ \A u \in 1..Len(response.urgentFollowUps) :
                \E m \in 1..Len(response.missedClients) :
                   response.missedClients[m] = response.urgentFollowUps[u]
          /\ \A k \in RowIdx :
                comparisonResults[k].action = "urgent_followup" =>
                  \E u \in 1..Len(response.urgentFollowUps) :
                     response.urgentFollowUps[u] = comparisonResults[k]

\* an API handler has sent a list of urgent follow-ups that is not empty,
\* beside a missed client that is not urgent
UrgentListSent ==
    /\ response.sent
    /\ Len(response.urgentFollowUps) >= 1
    /\ Len(response.missedClients) > Len(response.urgentFollowUps)

----------------------------------------------------------------------------
(* The plan store: the session map of storePlanInSession and               *)
(* getPlanFromSession, the plans file of loadPlans and savePlans, and the  *)
(* clock they read.  The clock counts half hours, so that the hour a       *)
(* session lives is SessionLifetime ticks; the behaviours stay within one  *)
(* calendar day.  Reading the plans file is taken to succeed (a missing or *)
(* unreadable file reads as no plans); writing it may fail.                *)

MaxClock == 4

\* 60 * 60 * 1000 milliseconds, in ticks of the clock
SessionLifetime == MaxClock - 2

\* the ids generateSessionId hands out: Date.now() and Math.random() in
\* base 36, which nothing keeps from coming out the same twice
SessionIds == {1, 2}

\* an id that generateSessionId never returned
UnknownId == 1 + 2

\* the calls of savePlanFromText the model follows
MaxSaves == 2

\* if (plansData.plans.length > 30) plansData.plans = ....slice(0, 30)
PlansKept == 30

Today == "today"

PlanDates == {Today, "yesterday"}

\* the plan texts that are saved:
\*   ab<tab>2<tab>1
\*   ab<tab>0
StorePlanTexts ==
    { <<"a", "b", "\t", "2", "\t", "1">>,
      <<"a", "b", "\t", "0">> }

Plan(id, date, text, clients) ==
    [id |-> id, date |-> date, planText |-> text, clients |-> clients]

Session(data, expiresAt) == [data |-> data, expiresAt |-> expiresAt]

\* Map.prototype.set
Put(map, key, value) ==
    [k \in DOMAIN map \cup {key} |-> IF k = key THEN value ELSE map[k]]

\* Map.prototype.delete, of several keys
Delete(map, keys) == [k \in DOMAIN map \ keys |-> map[k]]

\* IsExpired that finds no session expired
IsExpiredNever(session, t) == session.expiresAt < 0

\* session.expiresAt < Date.now()
IsExpired(session, t) == session.expiresAt < t

\* storePlanInSession: the map once the session is set and the expired
\* sessions are cleaned up
StorePlanInSession(map, sessionId, planData, t) ==
    LET stored == Put(map, sessionId, Session(planData, t + SessionLifetime))
    IN  Delete(stored, { id \in DOMAIN stored : IsExpired(stored[id], t) })

\* if (!sessionId)
SessionGiven(sessionId) == sessionId # NoSessionId

\* what getPlanFromSession returns
GetPlanFromSessionValue(map, sessionId, t) ==
    IF ~SessionGiven(sessionId) THEN NoPlan
    ELSE IF sessionId \notin DOMAIN map THEN NoPlan
    ELSE IF IsExpired(map[sessionId], t) THEN NoPlan
    ELSE map[sessionId].data

\* the map getPlanFromSession leaves: an expired session it came upon is
\* deleted
AfterGetPlanFromSession(map, sessionId, t) ==
    IF /\ SessionGiven(sessionId)
       /\ sessionId \in DOMAIN map
       /\ IsExpired(map[sessionId], t)
    THEN Delete(map, {sessionId})
    ELSE map

\* LatestPlan that takes the oldest plan of the file
OldestPlan(plans) == IF Len(plans) > 0 THEN plans[Len(plans)] ELSE NoPlan

\* plansData.plans.length > 0 ? plansData.plans[0] : null
LatestPlan(plans) == IF Len(plans) > 0 THEN plans[1] ELSE NoPlan

Kept(plans) ==
    IF Len(plans) > PlansKept THEN SubSeq(plans, 1, PlansKept) ELSE plans

\* savePlans: what the file holds after the attempt to write it
SavePlans(file, plans, writeOk) == IF writeOk THEN plans ELSE file

\* the clients the loop of savePlanFromText (session version) collects
SavedClients(text) ==
    LET lines == Split(text, "\n")
    IN  Flatten([k \in 1..Len(lines) |-> PlanTextPushed(Trim(lines[k]))])

\* Method 2, Method 3 and Method 4 of extractPlanClients under the tests
\* the code puts before them
PipeMethodIfRuns(locals, s) ==
    IF Method2Runs(locals)
    THEN SplitMethod(locals, TrimmedNonEmpty(Split(s, "|")))
    ELSE locals

SpaceMethodIfRuns(locals, s) ==
    IF LaterMethodRuns(locals) THEN SpaceMethod(locals, s) ELSE locals

RegexMethodIfRuns(locals, s) ==
    IF LaterMethodRuns(locals) THEN RegexMethod(locals, s) ELSE locals

\* extractPlanClients on one trimmed line, as one expression
ExtractLineRecords(s) ==
    IF ExtractSkipped(s) THEN <<>>
    ELSE ExtractPushed(
           s,
           RegexMethodIfRuns(
             SpaceMethodIfRuns(
               PipeMethodIfRuns(
                 SplitMethod(PlanLocals(<<>>, Zero), TabColumns(s)),
                 s),
               s),
             s))

\* the clients extractPlanClients returns to savePlanFromText (file version)
ExtractedClients(text) ==
    LET lines == Split(text, "\n")
    IN  Flatten([k \in 1..Len(lines) |-> ExtractLineRecords(Trim(lines[k]))])

\* both parsers on the texts that are saved, worked out once
ClientsOfText ==
    [text \in StorePlanTexts |->
       [saved |-> SavedClients(text), extracted |-> ExtractedClients(text)]]

NoValidClientsError == "No valid clients found in plan text"

FailedToSaveError == "Failed to save plan to storage"

NoPlanError == "No distribution plan found. Please upload a plan first."

Saved(op, sessionId, plan) ==
    [op |-> op, sessionId |-> sessionId, value |-> plan, success |-> TRUE,
     error |-> ""]

NotSaved(op, error) ==
    [op |-> op, sessionId |-> NoSessionId, value |-> NoPlan,
     success |-> FALSE, error |-> error]

Returned(op, sessionId, plan) ==
    [op |-> op, sessionId |-> sessionId, value |-> plan,
     success |-> plan # NoPlan, error |-> ""]

\* the ids the lookups are called with
LookupIds == SessionIds \cup {NoSessionId, UnknownId}

coreVars == <<engine, plannedClients, fulfilledDeliveries, masterClientList,
              comparisonResults, matchedDeliveries, pc, p, d, trace, result,
              response>>

StoreInit ==
    /\ engine = "compareDeliveryFromText"
    /\ plannedClients = <<>>
    /\ fulfilledDeliveries = <<>>
    /\ masterClientList = <<>>
    /\ comparisonResults = <<>>
    /\ matchedDeliveries = {}
    /\ p = 1
    /\ d = 1
    /\ pc = "store"
    /\ trace = <<>>
    /\ result = NoResult
    /\ response = NoResponse
    /\ fn = "none"
    /\ planText = <<>>
    /\ deliveryText = <<>>
    /\ lineNo = 0
    /\ curName = <<>>
    /\ curProducts = Zero
    /\ foundMatch = FALSE
    /\ ran = <<>>
    /\ sessionPlans = <<>>
    /\ plansFile = <<>>
    /\ now = 0
    /\ issued = <<>>
    /\ lastSave = NoSave
    /\ reply = NoReply
    /\ calls = <<>>

\* time passes; what the last call returned has gone to its caller
Tick ==
    /\ now < MaxClock
    /\ now' = now + 1
    /\ reply' = NoReply
    /\ UNCHANGED <<sessionPlans, plansFile, issued, lastSave>>
    /\ UNCHANGED <<coreVars, textVars, calls>>

\* savePlanFromText, the version that keeps sessions
SavePlanFromText ==
    /\ lastSave.n < MaxSaves
    /\ \E text \in StorePlanTexts, sessionId \in SessionIds,
          writeOk \in BOOLEAN :
         LET clients == ClientsOfText[text].saved
             newPlan == Plan(now, Today, text, clients)
         IN  IF clients = <<>>
             THEN /\ reply' = NotSaved("savePlanFromText",
                                       NoValidClientsError)
                  /\ lastSave' = SaveReturned(lastSave.n + 1, FALSE, NoPlan)
                  /\ UNCHANGED <<sessionPlans, issued, plansFile>>
             ELSE /\ sessionPlans' =
                       StorePlanInSession(sessionPlans, sessionId, newPlan,
                                          now)
                  /\ issued' = Put(issued, sessionId,
                                   Session(newPlan, now + SessionLifetime))
                  /\ plansFile' =
                       SavePlans(plansFile, Kept(<<newPlan>> \o plansFile),
                                 writeOk)
                  /\ lastSave' = SaveReturned(lastSave.n + 1, TRUE, newPlan)
                  /\ reply' = Saved("savePlanFromText", sessionId, newPlan)
    /\ UNCHANGED now
    /\ UNCHANGED <<coreVars, textVars, calls>>

\* savePlanFromText, the version that keeps the plans in the file only
SavePlanFromTextToFile ==
    /\ lastSave.n < MaxSaves
    /\ \E text \in StorePlanTexts, date \in PlanDates, writeOk \in BOOLEAN :
         LET newPlan == Plan(now, date, text, ClientsOfText[text].extracted)
             otherDate(plan) == plan.date # date
             plans == Kept(<<newPlan>> \o SelectSeq(plansFile, otherDate))
         IN  /\ plansFile' = SavePlans(plansFile, plans, writeOk)
             /\ IF writeOk
                THEN /\ lastSave' = SaveReturned(lastSave.n + 1, TRUE, newPlan)
                     /\ reply' = Saved("savePlanFromText", NoSessionId,
                                       newPlan)
                ELSE /\ lastSave' = SaveReturned(lastSave.n + 1, FALSE, NoPlan)
                     /\ reply' = NotSaved("savePlanFromText",
                                          FailedToSaveError)
    /\ UNCHANGED <<sessionPlans, now, issued>>
    /\ UNCHANGED <<coreVars, textVars, calls>>

GetLatestPlan ==
    /\ reply' = Returned("getLatestPlan", NoSessionId, LatestPlan(plansFile))
    /\ UNCHANGED <<sessionPlans, plansFile, now, issued, lastSave>>
    /\ UNCHANGED <<coreVars, textVars, calls>>

GetPlanFromSession ==
    /\ \E sessionId \in LookupIds :
         /\ reply' = Returned("getPlanFromSession", sessionId,
                              GetPlanFromSessionValue(sessionPlans,
                                                      sessionId, now))
         /\ sessionPlans' =
              AfterGetPlanFromSession(sessionPlans, sessionId, now)
    /\ UNCHANGED <<plansFile, now, issued, lastSave>>
    /\ UNCHANGED <<coreVars, textVars, calls>>

\* compareDeliveryFromText up to the plan it goes on with: the plan of the
\* session, else the first plan of the file, else the failure it returns
SelectPlan ==
    /\ \E sessionId \in LookupIds :
         LET fromSession == GetPlanFromSessionValue(sessionPlans, sessionId,
                                                    now)
             plan == IF fromSession # NoPlan THEN fromSession
                     ELSE LatestPlan(plansFile)
         IN  /\ sessionPlans' =
                  AfterGetPlanFromSession(sessionPlans, sessionId, now)
             /\ reply' =
                  [Returned("compareDeliveryFromText", sessionId, plan)
                     EXCEPT !.error = IF plan = NoPlan THEN NoPlanError
                                      ELSE ""]
    /\ UNCHANGED <<plansFile, now, issued, lastSave>>
    /\ UNCHANGED <<coreVars, textVars, calls>>

StoreNext ==
    \/ Tick
    \/ SavePlanFromText
    \/ SavePlanFromTextToFile
    \/ GetLatestPlan
    \/ GetPlanFromSession
    \/ SelectPlan

StoreSpec == StoreInit /\ [][StoreNext]_vars

StoreTypeOK ==
    /\ now \in 0..MaxClock
    /\ DOMAIN sessionPlans \subseteq SessionIds
    /\ DOMAIN sessionPlans \subseteq DOMAIN issued
    /\ Len(plansFile) <= MaxSaves + 1

(* C26: most recent plan wins.  Whenever the last call of savePlanFromText *)
(* returned success=true, the plan getLatestPlan returns is the plan that  *)
(* call saved, whether or not the plans file could be written.             *)
LastSavedIsLatest ==
    lastSave.success => LatestPlan(plansFile) = lastSave.plan

(* C27: a session lives one hour.  A session that was issued and has not   *)
(* reached its expiry is in the session map with the plan and the expiry   *)
(* it was stored with, whatever was stored since; getPlanFromSession       *)
(* called with its id before the expiry returns exactly that plan; called  *)
(* after the expiry it returns null and the entry is gone from the map;    *)
(* called with no id or with an id that was never issued it returns null.  *)
SessionsLiveOneHour ==
    /\ \A id \in DOMAIN issued :
         now < issued[id].expiresAt =>
           id \in DOMAIN sessionPlans /\ sessionPlans[id] = issued[id]
    /\ reply.op = "getPlanFromSession" =>
         LET id == reply.sessionId
         IN  IF id \notin DOMAIN issued THEN reply.value = NoPlan
             ELSE /\ now < issued[id].expiresAt
                       => reply.value = issued[id].data
                  /\ now > issued[id].expiresAt
                       => reply.value = NoPlan /\ id \notin DOMAIN sessionPlans

\* a session is looked up before its expiry after another plan was stored
\* under another id, and its own plan comes back
LiveSessionFoundAfterOtherStore ==
    /\ reply.op = "getPlanFromSession"
    /\ reply.value # NoPlan
    /\ now < issued[reply.sessionId].expiresAt
    /\ \E other \in DOMAIN issued :
         /\ other # reply.sessionId
         /\ issued[other].data.id > reply.value.id

(* C28: the plan compareDeliveryFromText goes on with.  Called with the id *)
(* of a session that has not reached its expiry it uses the plan of that   *)
(* session; called with no id, with an id that was never issued or with    *)
(* the id of a session past its expiry it uses the first plan of the plans *)
(* file; it returns the failure "No distribution plan found" exactly when  *)
(* the session map holds nothing under the id and the file holds no plan.  *)
SessionPlanElseFilePlan ==
    reply.op = "compareDeliveryFromText" =>
      LET id == reply.sessionId
          inFile == IF plansFile = <<>> THEN NoPlan ELSE Head(plansFile)
      IN  /\ (id \in DOMAIN issued /\ now < issued[id].expiresAt)
               => reply.value = issued[id].data
          /\ (id \notin DOMAIN issued \/ now > issued[id].expiresAt)
               => reply.value = inFile
          /\ reply.error = NoPlanError
               <=> (id \notin DOMAIN sessionPlans /\ plansFile = <<>>)
          /\ reply.error = NoPlanError <=> ~reply.success
          /\ reply.error = NoPlanError <=> reply.value = NoPlan

\* the session of the id has expired and the comparison goes on with the
\* first of two plans of the file, which is not the plan of the session
ExpiredSessionFallsBackToFile ==
    /\ reply.op = "compareDeliveryFromText"
    /\ reply.sessionId \in DOMAIN issued
    /\ now > issued[reply.sessionId].expiresAt
    /\ Len(plansFile) = 2
    /\ reply.value = plansFile[1]
    /\ reply.value # plansFile[2]
    /\ reply.value # issued[reply.sessionId].data

----------------------------------------------------------------------------
(* Calls in progress together.  performPlanDeliveryMatching and            *)
(* compareDeliveryWithPlan are async functions: a second call may begin    *)
(* before the first has returned.  Each call has the locals of its own     *)
(* activation in `calls`; the directory is the one list masterClientList   *)
(* that the caller hands to every call.  A step is the entry into the      *)
(* function, one iteration of a loop of the matching, or the return; the   *)
(* steps of the calls interleave in every order, which is more than the    *)
(* event loop allows.  The directories have a name in every entry, so no   *)
(* lookup throws.                                                          *)

CallIds == {1, 2}

NoCallResult ==
    [success |-> FALSE, error |-> "", comparisonResults |-> <<>>,
     stats |-> NoStats, comparison |-> <<>>]

CallFailure(error) == [NoCallResult EXCEPT !.error = error]

\* the arguments a call was given, kept as history
Given(planned, delivered, directory) ==
    [plannedClients |-> planned, fulfilledDeliveries |-> delivered,
     masterClientList |-> directory]

\* an activation that has not run yet
Call(kind, planTxt, deliveryTxt, planned, delivered, directory) ==
    [kind |-> kind, planText |-> planTxt, deliveryText |-> deliveryTxt,
     plannedClients |-> planned, fulfilledDeliveries |-> delivered,
     given |-> Given(planned, delivered, directory),
     comparisonResults |-> <<>>, matchedDeliveries |-> {}, p |-> 1, d |-> 1,
     pc |-> "called", result |-> NoCallResult]

\* NewClaims for a set of claims kept at module level and left as the
\* other calls have it
NewClaimsShared(others) == others

\* const matchedDeliveries = new Set()
NewClaims(others) == {}

\* ClaimDelivery that takes the claimed record out of the array
ClaimDeliveryRemoving(deliveries, index) ==
    SubSeq(deliveries, 1, index - 1)
      \o SubSeq(deliveries, index + 1, Len(deliveries))

\* matchedDeliveries.add(matchIndex): the array of deliveries after a claim
ClaimDelivery(deliveries, index) == deliveries

\* the entry into performPlanDeliveryMatching
Entered(call, directory, others) ==
    [call EXCEPT
       !.given = Given(call.plannedClients, call.fulfilledDeliveries,
                       directory),
       !.comparisonResults = <<>>,
       !.matchedDeliveries = NewClaims(others),
       !.p = 1,
       !.d = 1,
       !.pc = PcAfter(call.plannedClients, call.fulfilledDeliveries, 1, 1)]

\* compareDeliveryWithPlan up to its return of a failure or its entry into
\* performPlanDeliveryMatching
Compared(call, directory, others) ==
    LET planClients == RecordsOf(Split(call.planText, "\n"),
                                 ComparePlanPushed)
        deliveries == RecordsOf(Split(call.deliveryText, "\n"),
                                DeliveryLineRecords)
    IN  IF NoRecords(planClients)
        THEN [call EXCEPT !.result = CallFailure(NoClientsError),
                          !.pc = "done"]
        ELSE IF NoRecords(deliveries)
        THEN [call EXCEPT !.plannedClients = planClients,
                          !.result = CallFailure(NoDeliveriesError),
                          !.pc = "done"]
        ELSE Entered([call EXCEPT !.plannedClients = planClients,
                                  !.fulfilledDeliveries = deliveries],
                     directory, others)

\* one iteration of `for (const planned of plannedClients)`
MatchedPlanned(call, directory) ==
    LET planned == call.plannedClients[call.p]
        best == BestMatch(planned, call.fulfilledDeliveries,
                          call.matchedDeliveries)
        mi == FindMasterForPlanned(directory, planned.name)
        deliveries == IF IsDelivered(best)
                      THEN ClaimDelivery(call.fulfilledDeliveries,
                                         best.matchIndex)
                      ELSE call.fulfilledDeliveries
    IN  [call EXCEPT
           !.matchedDeliveries =
               IF IsDelivered(best) THEN @ \cup {best.matchIndex} ELSE @,
           !.comparisonResults =
               Append(@, IF IsDelivered(best)
                         THEN DeliveredRow(
                                planned,
                                call.fulfilledDeliveries[best.matchIndex],
                                directory, mi)
                         ELSE MissedRow(planned, directory, mi)),
           !.fulfilledDeliveries = deliveries,
           !.p = @ + 1,
           !.pc = PcAfter(call.plannedClients, deliveries, call.p + 1,
                          call.d)]

\* one iteration of the second forEach
ProcessedUnplanned(call, directory) ==
    LET fulfilled == call.fulfilledDeliveries[call.d]
        mi == FindMaster(directory, fulfilled.clientName)
    IN  [call EXCEPT
           !.comparisonResults =
               IF IsUnclaimed(call.d, call.matchedDeliveries)
               THEN Append(@, UnplannedRow(fulfilled, directory, mi))
               ELSE @,
           !.d = @ + 1,
           !.pc = PcAfter(call.plannedClients, call.fulfilledDeliveries,
                          call.p, call.d + 1)]

\* the return of performPlanDeliveryMatching
ReturnedCall(call) ==
    [call EXCEPT
       !.result = [success |-> TRUE, error |-> "",
                   comparisonResults |-> call.comparisonResults,
                   stats |-> Stats(call.plannedClients,
                                   call.fulfilledDeliveries,
                                   call.comparisonResults),
                   comparison |-> ComparisonReport(call.comparisonResults)],
       !.pc = "done"]

\* the next step of a call
CallStep(call, directory, others) ==
    CASE call.pc = "called" ->
           IF call.kind = "compareDeliveryWithPlan"
           THEN Compared(call, directory, others)
           ELSE Entered(call, directory, others)
      [] call.pc = "match" -> MatchedPlanned(call, directory)
      [] call.pc = "unplanned" -> ProcessedUnplanned(call, directory)
      [] call.pc = "report" -> ReturnedCall(call)

\* a call run from its beginning to its return with no other call about
RECURSIVE RunAlone(_, _)
RunAlone(call, directory) ==
    IF call.pc = "done" THEN call
    ELSE RunAlone(CallStep(call, directory, {}), directory)

\* the claimed sets of the calls other than c, as they are now
ClaimsOfOthers(c) ==
    UNION { calls[o].matchedDeliveries : o \in CallIds \ {c} }

\* the plan texts of the calls of compareDeliveryWithPlan:
\*   ab<tab>2<tab>1
\*   ab<tab>2<tab>1 <newline> bb<tab>-5<tab>9
\*   ab<tab>0
CallPlanTexts ==
    { <<"a", "b", "\t", "2", "\t", "1">>,
      <<"a", "b", "\t", "2", "\t", "1", "\n",
        "b", "b", "\t", "-", "5", "\t", "9">>,
      <<"a", "b", "\t", "0">> }

\* their delivery texts:
\*   ab - 3 <U+0643><U+0648><U+0628> + 2 <U+0643>
\*   bb 5 <U+0635> + 3 <U+0643> <newline> abb - 1 <U+0643>
CallDeliveryTexts ==
    { <<"a", "b", " ", "-", " ", "3", " ", "U0643", "U0648", "U0628",
        " ", "+", " ", "2", " ", "U0643">>,
      <<"b", "b", " ", "5", " ", "U0635", " ", "+", " ", "3", " ", "U0643",
        "\n", "a", "b", "b", " ", "-", " ", "1", " ", "U0643">> }

\* the directories of the calls
CallDirectories ==
    { <<FreezerClient>>, <<PlainClient, ArabicClient, FreezerClient>> }

\* a plan store that holds a session and a plan in the file
StoreInUse ==
    LET text == <<"a", "b", "\t", "2", "\t", "1">>
        plan == Plan(0, Today, text, ClientsOfText[text].saved)
    IN  /\ sessionPlans = StorePlanInSession(<<>>, 1, plan, 0)
        /\ issued = sessionPlans
        /\ plansFile = <<plan>>
        /\ lastSave = SaveReturned(1, TRUE, plan)

\* two calls of performPlanDeliveryMatching on the same planned records,
\* delivered records and directory, or two calls of compareDeliveryWithPlan
\* on texts of their own and the same directory
CallsInit ==
    /\ engine = "performPlanDeliveryMatching"
    /\ masterClientList \in CallDirectories
    /\ fn \in {"performPlanDeliveryMatching", "compareDeliveryWithPlan"}
    /\ IF fn = "performPlanDeliveryMatching"
       THEN \E planned \in [1..2 -> PlannedPool],
               delivered \in [1..2 -> DeliveredPool] :
              calls = [c \in CallIds |->
                         Call(fn, <<>>, <<>>, planned, delivered,
                              masterClientList)]
       ELSE calls \in [CallIds ->
                         { Call(fn, planTxt, deliveryTxt, <<>>, <<>>,
                                masterClientList) :
                             planTxt \in CallPlanTexts,
                             deliveryTxt \in CallDeliveryTexts }]
    /\ plannedClients = <<>>
    /\ fulfilledDeliveries = <<>>
    /\ comparisonResults = <<>>
    /\ matchedDeliveries = {}
    /\ p = 1
    /\ d = 1
    /\ pc = "calls"
    /\ trace = <<>>
    /\ result = NoResult
    /\ response = NoResponse
    /\ planText = <<>>
    /\ deliveryText = <<>>
    /\ lineNo = 0
    /\ curName = <<>>
    /\ curProducts = Zero
    /\ foundMatch = FALSE
    /\ ran = <<>>
    /\ now = 0
    /\ reply = NoReply
    /\ \/ StoreIdle
       \/ StoreInUse

\* what a step of call c leaves alone
CallFrame ==
    /\ UNCHANGED <<coreVars, textVars, storeVars>>

\* call c enters its function
CallEnters ==
    /\ \E c \in CallIds :
         /\ calls[c].pc = "called"
         /\ calls' = [calls EXCEPT
                        ![c] = CallStep(calls[c], masterClientList,
                                        ClaimsOfOthers(c))]
    /\ CallFrame

\* call c matches its next planned client
CallMatchesPlanned ==
    /\ \E c \in CallIds :
         /\ calls[c].pc = "match"
         /\ calls' = [calls EXCEPT
                        ![c] = MatchedPlanned(calls[c], masterClientList)]
    /\ CallFrame

\* call c looks at its next delivery
CallProcessesUnplanned ==
    /\ \E c \in CallIds :
         /\ calls[c].pc = "unplanned"
         /\ calls' = [calls EXCEPT
                        ![c] = ProcessedUnplanned(calls[c],
                                                  masterClientList)]
    /\ CallFrame

\* call c returns
CallReturns ==
    /\ \E c \in CallIds :
         /\ calls[c].pc = "report"
         /\ calls' = [calls EXCEPT ![c] = ReturnedCall(calls[c])]
    /\ CallFrame

CallsNext ==
    \/ CallEnters
    \/ CallMatchesPlanned
    \/ CallProcessesUnplanned
    \/ CallReturns

CallsSpec == CallsInit /\ [][CallsNext]_vars

CallsTypeOK ==
    \A c \in CallIds :
        /\ calls[c].pc \in {"called", "match", "unplanned", "report", "done"}
        /\ calls[c].p \in 1..(Len(calls[c].plannedClients) + 1)
        /\ calls[c].matchedDeliveries
             \subseteq 1..Len(calls[c].fulfilledDeliveries)

====
